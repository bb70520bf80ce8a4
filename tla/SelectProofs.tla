----------------------------- MODULE SelectProofs -----------------------------
(***************************************************************************)
(* Proofs about the workers of Unix.select on Windows, for any number of   *)
(* callers, calls and descriptors: every worker is in one place, the data  *)
(* of a call, the hand of a caller or the pool, until its thread has ended.*)
(***************************************************************************)
EXTENDS Select, FiniteSetTheorems, WellFoundedInduction, TLAPS

-----------------------------------------------------------------------------
(* The workers of Unix.select on Windows: the list of data.                 *)

Modes == {"read", "write", "except"}
Queries == Seq([mode : Modes, fd : DOMAIN DescrKind, idx : Nat])

\* Data that no worker has yet.
FreshData ==
  [type : {"static", "console", "pipe", "socket"}, queries : Queries, results : Seq([mode : Modes, idx : Nat]), state : {"none"},
   error : {FALSE}, worker : {0}, signaled : {{}}, freed : {FALSE}]
Dispatching == [data : Seq(FreshData), done : Seq(DOMAIN DescrKind)]

\* A set of natural numbers that is not empty has a least one.
LEMMA LeastIn ==
  ASSUME NEW J \in SUBSET Nat, J # {}
  PROVE  \E k \in J : \A l \in J : k <= l
<1> DEFINE R == OpToRel(<, Nat)
<1>1. IsWellFoundedOn(R, Nat)
  BY NatLessThanWellFounded
<1>2. \A x, y \in Nat : <<x, y>> \in R <=> x < y
  BY DEF OpToRel
<1> HIDE DEF R
<1>3. PICK k \in J : \A l \in J : ~(<<l, k>> \in R)
  BY <1>1, WFMin
<1>4. \A l \in J : l \in Nat /\ k \in Nat /\ ~(l < k)
  BY <1>2, <1>3
<1>5. \A l \in J : k <= l
  BY <1>4
<1> QED BY <1>5

\* select_data_new gives data without a worker.
LEMMA NewData ==
  ASSUME NEW type \in {"static", "console", "pipe", "socket"}
  PROVE  select_data_new(type) \in FreshData
BY DEF select_data_new, FreshData, Queries

\* select_data_query_add leaves worker and state alone.
LEMMA QueryAdded ==
  ASSUME NEW d \in FreshData, NEW q \in [mode : Modes, fd : DOMAIN DescrKind, idx : Nat]
  PROVE  select_data_query_add(d, q) \in FreshData
<1>1. Append(d.queries, q) \in Queries
  BY DEF FreshData, Queries
<1> QED BY <1>1 DEF select_data_query_add, FreshData

\* select_data_result_add leaves worker and state alone.
LEMMA ResultAdded ==
  ASSUME NEW d \in FreshData, NEW q \in [mode : Modes, fd : DOMAIN DescrKind, idx : Nat]
  PROVE  select_data_result_add(d, q) \in FreshData
<1>1. SelectAnswer(q) \in [mode : Modes, idx : Nat]
  BY DEF SelectAnswer
<1>2. Append(d.results, SelectAnswer(q)) \in Seq([mode : Modes, idx : Nat])
  BY <1>1 DEF FreshData
<1> QED BY <1>2 DEF select_data_result_add, FreshData

\* The place that select_data_job_search finds is in its list.
LEMMA JobSearched ==
  ASSUME NEW data \in Seq(FreshData), NEW type \in {"static", "console", "pipe", "socket"}
  PROVE  LET found == select_data_job_search(data, type) IN found.list \in Seq(FreshData) /\ found.at \in DOMAIN found.list
<1> DEFINE J == {i \in DOMAIN data : data[i].type = type /\ HasRoom(data[i])}
           at == CHOOSE k \in J : \A l \in J : k <= l
<1>1. CASE J = {}
  <2>1. select_data_job_search(data, type) = [list |-> <<select_data_new(type)>> \o data, at |-> 1]
    BY <1>1 DEF select_data_job_search
  <2>2. <<select_data_new(type)>> \in Seq(FreshData)
    BY NewData
  <2>3. <<select_data_new(type)>> \o data \in Seq(FreshData) /\ Len(<<select_data_new(type)>> \o data) = 1 + Len(data)
    BY <2>2
  <2>4. 1 \in DOMAIN (<<select_data_new(type)>> \o data)
    BY <2>3
  <2> QED BY <2>1, <2>3, <2>4
<1>2. CASE J # {}
  <2>1. select_data_job_search(data, type) = [list |-> data, at |-> at]
    BY <1>2 DEF select_data_job_search
  <2>2. J \in SUBSET Nat
    OBVIOUS
  <2>3. at \in J
    <3> HIDE DEF J
    <3> QED BY <1>2, <2>2, LeastIn
  <2>4. at \in DOMAIN data
    BY <2>3
  <2> HIDE DEF at
  <2> QED BY <2>1, <2>4
<1> QED BY <1>1, <1>2

\* A list with one element changed.
LEMMA ListExcept ==
  ASSUME NEW S, NEW s \in Seq(S), NEW i \in DOMAIN s, NEW x \in S
  PROVE  [s EXCEPT ![i] = x] \in Seq(S)
OBVIOUS

\* read_pipe_poll_add and socket_poll_add.
LEMMA Polled ==
  ASSUME NEW data \in Seq(FreshData), NEW type \in {"static", "console", "pipe", "socket"},
         NEW q \in [mode : Modes, fd : DOMAIN DescrKind, idx : Nat]
  PROVE  poll_add(data, type, q) \in Seq(FreshData)
<1> DEFINE found == select_data_job_search(data, type)
<1>1. found.list \in Seq(FreshData) /\ found.at \in DOMAIN found.list
  BY JobSearched
<1>2. found.list[found.at] \in FreshData
  BY <1>1
<1>3. select_data_query_add(found.list[found.at], q) \in FreshData
  BY <1>2, QueryAdded
<1>4. poll_add(data, type, q) = [found.list EXCEPT ![found.at] = select_data_query_add(found.list[found.at], q)]
  BY DEF poll_add
<1> HIDE DEF found
<1> QED BY <1>1, <1>3, <1>4, ListExcept

\* static_poll_add.
LEMMA StaticPolled ==
  ASSUME NEW data \in Seq(FreshData), NEW q \in [mode : Modes, fd : DOMAIN DescrKind, idx : Nat]
  PROVE  static_poll_add(data, q) \in Seq(FreshData)
<1> DEFINE found == select_data_job_search(data, "static")
<1>1. found.list \in Seq(FreshData) /\ found.at \in DOMAIN found.list
  BY JobSearched
<1>2. found.list[found.at] \in FreshData
  BY <1>1
<1>3. select_data_result_add(select_data_query_add(found.list[found.at], q), q) \in FreshData
  BY <1>2, QueryAdded, ResultAdded
<1>4. static_poll_add(data, q) =
        [found.list EXCEPT ![found.at] = select_data_result_add(select_data_query_add(found.list[found.at], q), q)]
  BY DEF static_poll_add
<1> HIDE DEF found
<1> QED BY <1>1, <1>3, <1>4, ListExcept

\* select_data_dispatch, for every kind of descriptor.
LEMMA Dispatches ==
  ASSUME NEW data \in Seq(FreshData), NEW mode \in Modes, NEW fd \in DOMAIN DescrKind, NEW idx \in Nat
  PROVE  select_data_dispatch(data, mode, fd, idx) \in Seq(FreshData)
<1> DEFINE q == Query(mode, fd, idx)
<1>1. q \in [mode : Modes, fd : DOMAIN DescrKind, idx : Nat]
  BY DEF Query
<1>2. poll_add(data, "socket", q) \in Seq(FreshData) /\ poll_add(data, "pipe", q) \in Seq(FreshData)
  BY <1>1, Polled
<1>3. static_poll_add(data, q) \in Seq(FreshData)
  BY <1>1, StaticPolled
<1>4. read_console_poll_add(data, q) \in Seq(FreshData)
  <2>1. select_data_query_add(select_data_new("console"), q) \in FreshData
    BY <1>1, NewData, QueryAdded
  <2> QED BY <2>1 DEF read_console_poll_add
<1> HIDE DEF q
<1>5. select_data_dispatch(data, mode, fd, idx) \in {poll_add(data, "socket", q), poll_add(data, "pipe", q), static_poll_add(data, q),
                                                     read_console_poll_add(data, q), data}
  BY DEF select_data_dispatch, q
<1> QED BY <1>2, <1>3, <1>4, <1>5

\* One turn of the loop over a list of descriptors.
LEMMA DispatchedOne ==
  ASSUME NEW s \in Dispatching, NEW mode \in Modes, NEW fd \in DOMAIN DescrKind
  PROVE  DispatchOne(s, mode, fd) \in Dispatching
<1>1. s.data \in Seq(FreshData) /\ s.done \in Seq(DOMAIN DescrKind) /\ Len(s.done) \in Nat
  BY DEF Dispatching
<1>2. select_data_dispatch(s.data, mode, fd, Len(s.done)) \in Seq(FreshData) /\ handle_set_add(s.done, fd) \in Seq(DOMAIN DescrKind)
  <2>1. select_data_dispatch(s.data, mode, fd, Len(s.done)) \in Seq(FreshData)
    BY <1>1, Dispatches
  <2>2. handle_set_add(s.done, fd) \in Seq(DOMAIN DescrKind)
    BY <1>1 DEF handle_set_add
  <2> QED BY <2>1, <2>2
<1> QED BY <1>2 DEF DispatchOne, Dispatching

\* The states of the loop over a list: D[n] after n descriptors.
Loop(D, data, mode, fds, m) ==
  D = [n \in 0 .. m |-> IF n = 0 THEN [data |-> data, done |-> <<>>] ELSE DispatchOne(D[n - 1], mode, fds[n])]

\* The loop over a list of descriptors is defined: the least turn that has no value would follow one that has.
LEMMA LoopExists ==
  ASSUME NEW data, NEW mode, NEW fds, NEW k \in Nat
  PROVE  \E D : Loop(D, data, mode, fds, k)
<1> DEFINE S == {n \in Nat : ~\E D : Loop(D, data, mode, fds, n)}
<1>1. ASSUME S # {} PROVE FALSE
  <2>1. S \in SUBSET Nat
    OBVIOUS
  <2>2. PICK m \in S : \A n \in S : m <= n
    <3> HIDE DEF S
    <3> QED BY <1>1, <2>1, LeastIn
  <2>3. m \in Nat /\ ~\E D : Loop(D, data, mode, fds, m)
    OBVIOUS
  <2> DEFINE first == [data |-> data, done |-> <<>>]
  <2>4. CASE m = 0
    <3> DEFINE D == [n \in 0 .. 0 |-> first]
    <3>1. \A n \in 0 .. 0 : n = 0
      OBVIOUS
    <3>2. Loop(D, data, mode, fds, 0)
      BY <3>1 DEF Loop
    <3> QED BY <2>3, <2>4, <3>2
  <2>5. CASE m # 0
    <3>1. m - 1 \in Nat /\ ~(m <= m - 1)
      BY <2>3, <2>5
    <3>2. m - 1 \notin S
      <4> HIDE DEF S
      <4> QED BY <2>2, <3>1
    <3>3. PICK h : Loop(h, data, mode, fds, m - 1)
      BY <3>1, <3>2
    <3> DEFINE D == [n \in 0 .. m |-> IF n = m THEN DispatchOne(h[m - 1], mode, fds[m]) ELSE h[n]]
    <3>4. \A n \in 0 .. (m - 1) : h[n] = IF n = 0 THEN first ELSE DispatchOne(h[n - 1], mode, fds[n])
      BY <3>3 DEF Loop
    <3>5. \A n \in 0 .. m : D[n] = IF n = 0 THEN first ELSE DispatchOne(D[n - 1], mode, fds[n])
      <4> SUFFICES ASSUME NEW n \in 0 .. m PROVE D[n] = IF n = 0 THEN first ELSE DispatchOne(D[n - 1], mode, fds[n])
        OBVIOUS
      <4> HIDE DEF first
      <4>1. CASE n = m
        <5>1. n # 0 /\ n - 1 \in 0 .. m /\ n - 1 # m /\ D[n] = DispatchOne(h[m - 1], mode, fds[m])
          BY <2>3, <2>5, <4>1
        <5>2. D[n - 1] = h[m - 1]
          BY <4>1, <5>1
        <5> QED BY <4>1, <5>1, <5>2
      <4>2. CASE n # m
        <5>1. n \in 0 .. (m - 1) /\ D[n] = h[n]
          BY <2>3, <4>2
        <5>2. n # 0 => n - 1 \in 0 .. m /\ n - 1 # m
          BY <2>3, <4>2
        <5>3. n # 0 => D[n - 1] = h[n - 1]
          BY <5>2
        <5> QED BY <3>4, <5>1, <5>3
      <4> QED BY <4>1, <4>2
    <3>6. Loop(D, data, mode, fds, m)
      <4>1. D = [n \in 0 .. m |-> D[n]]
        OBVIOUS
      <4> HIDE DEF D
      <4>2. [n \in 0 .. m |-> D[n]] = [n \in 0 .. m |-> IF n = 0 THEN first ELSE DispatchOne(D[n - 1], mode, fds[n])]
        BY <3>5
      <4> QED BY <4>1, <4>2 DEF Loop
    <3> QED BY <2>3, <3>6
  <2> QED BY <2>4, <2>5
<1> QED BY <1>1

\* Each turn of the loop leaves data without a worker.
LEMMA LoopTypes ==
  ASSUME NEW data \in Seq(FreshData), NEW mode \in Modes, NEW fds \in Seq(DOMAIN DescrKind), NEW D, Loop(D, data, mode, fds, Len(fds))
  PROVE  D[Len(fds)] \in Dispatching
<1> DEFINE S == {n \in 0 .. Len(fds) : D[n] \notin Dispatching}
<1>0. Len(fds) \in Nat
  OBVIOUS
<1>1. ASSUME S # {} PROVE FALSE
  <2>1. S \in SUBSET Nat
    BY <1>0
  <2>2. PICK m \in S : \A n \in S : m <= n
    <3> HIDE DEF S
    <3> QED BY <1>1, <2>1, LeastIn
  <2>3. m \in 0 .. Len(fds) /\ D[m] \notin Dispatching
    OBVIOUS
  <2>4. D[m] = IF m = 0 THEN [data |-> data, done |-> <<>>] ELSE DispatchOne(D[m - 1], mode, fds[m])
    BY <2>3 DEF Loop
  <2>5. CASE m = 0
    BY <2>3, <2>4, <2>5 DEF Dispatching
  <2>6. CASE m # 0
    <3>1. m - 1 \in 0 .. Len(fds) /\ ~(m <= m - 1) /\ m \in 1 .. Len(fds)
      BY <1>0, <2>3, <2>6
    <3>2. m - 1 \notin S
      <4> HIDE DEF S
      <4> QED BY <2>2, <3>1
    <3>3. D[m - 1] \in Dispatching
      BY <3>1, <3>2
    <3>4. fds[m] \in DOMAIN DescrKind
      BY <3>1
    <3> QED BY <2>3, <2>4, <2>6, <3>3, <3>4, DispatchedOne
  <2> QED BY <2>5, <2>6
<1>2. Len(fds) \in 0 .. Len(fds)
  BY <1>0
<1> QED BY <1>1, <1>2

\* The loop over a list of descriptors.
LEMMA ListDispatched ==
  ASSUME NEW data \in Seq(FreshData), NEW mode \in Modes, NEW fds \in Seq(DOMAIN DescrKind)
  PROVE  DispatchList(data, mode, fds) \in Seq(FreshData)
<1> DEFINE E == CHOOSE D : D = [n \in 0 .. Len(fds) |-> IF n = 0 THEN [data |-> data, done |-> <<>>] ELSE DispatchOne(D[n - 1], mode, fds[n])]
<1>1. Len(fds) \in Nat
  OBVIOUS
<1>2. \E D : D = [n \in 0 .. Len(fds) |-> IF n = 0 THEN [data |-> data, done |-> <<>>] ELSE DispatchOne(D[n - 1], mode, fds[n])]
  <2>1. PICK D : Loop(D, data, mode, fds, Len(fds))
    BY <1>1, LoopExists
  <2> QED BY <2>1 DEF Loop
<1>3. E = [n \in 0 .. Len(fds) |-> IF n = 0 THEN [data |-> data, done |-> <<>>] ELSE DispatchOne(E[n - 1], mode, fds[n])]
  BY <1>2
<1>4. DispatchList(data, mode, fds) = E[Len(fds)].data
  BY DEF DispatchList
<1> HIDE DEF E
<1>5. Loop(E, data, mode, fds, Len(fds))
  BY <1>3 DEF Loop
<1>6. E[Len(fds)] \in Dispatching
  BY <1>5, LoopTypes
<1> QED BY <1>4, <1>6 DEF Dispatching

\* The data of a call has no worker at first.
LEMMA DispatchedFresh ==
  ASSUME NEW q, {q.read, q.write, q.except} \subseteq Seq(DOMAIN DescrKind)
  PROVE  Dispatched(q) \in Seq(FreshData)
<1>1. <<>> \in Seq(FreshData)
  OBVIOUS
<1> QED BY <1>1, ListDispatched DEF Dispatched, Modes

\* The shape of the state.
ResFields == {"callers", "workers", "pool", "current", "max", "input", "console", "others", "events", "assoc", "nonblock", "crashed"}
CallerFields == {"pc", "call", "k", "data", "err", "timedout", "using", "out"}
DataFields == {"type", "queries", "results", "state", "error", "worker", "signaled", "freed"}
Callers == {0} \cup DOMAIN job.queries
HoldPcs == {"ready", "lost", "discard", "discarded", "empty", "emptied"}
CleanPcs == {"cleanup", "empty", "emptied", "exit"}
Running == {"job", "dropping", "pause", "sockets", "finish"}
WorkerSet ==
  [pc : Running \cup {"start", "waiting", "exited"}, stop : BOOLEAN, done : BOOLEAN, ready : BOOLEAN, command : BOOLEAN,
   cmd : {"none", "exec", "stop"}, data : {<<>>} \cup (Callers \X Nat)]
SocketFds == {f \in DOMAIN DescrKind : DescrKind[f] \in {"socket", "unbound"}}

IsData(d) == DOMAIN d = DataFields /\ d.worker \in Nat
IsDataList(data) == /\ \E n \in Nat : DOMAIN data = 1 .. n
                    /\ \A i \in DOMAIN data : IsData(data[i])
IsCaller(x) == DOMAIN x = CallerFields /\ x.k \in Nat \ {0} /\ x.using \in Nat /\ IsDataList(x.data)
IsJob == job.part = "select" /\ job.queries \in SelectQueries
SelectTypes ==
  /\ IsJob
  /\ DOMAIN res = ResFields
  /\ DOMAIN res.callers = Callers /\ \A c \in Callers : IsCaller(res.callers[c])
  /\ res.workers \in Seq(WorkerSet)
  /\ res.pool \in Seq(Nat) /\ Len(res.pool) <= THREAD_WORKERS_MAX
  /\ res.current \in Int
  /\ DOMAIN res.assoc = SocketFds
  /\ \A fd \in SocketFds : res.assoc[fd] # <<>> => res.assoc[fd][1] \in DOMAIN res.workers

\* The places of a worker: caller c has it watch data k, caller c is about to give it work or to end it, the pool.
Watches(c, k, w) == c \in Callers /\ k \in DOMAIN res.callers[c].data /\ res.callers[c].data[k].worker = w /\ w # 0
Holds(c, w) == c \in Callers /\ res.callers[c].pc \in HoldPcs /\ res.callers[c].using = w
Readies(c, w) == c \in Callers /\ res.callers[c].pc \in {"ready", "lost"} /\ res.callers[c].using = w
OnePlace ==
  /\ \A c1, k1, c2, k2, w : Watches(c1, k1, w) /\ Watches(c2, k2, w) => c1 = c2 /\ k1 = k2
  /\ \A c1, c2, w : Holds(c1, w) /\ Holds(c2, w) => c1 = c2
  /\ \A c1, k, c2, w : ~(Watches(c1, k, w) /\ Holds(c2, w))
  /\ \A c, k, w : ~(Watches(c, k, w) /\ InPool(w))
  /\ \A c, w : ~(Holds(c, w) /\ InPool(w))

\* A worker in a place exists, and one that is in none has ended.
Placed ==
  /\ \A c, k, w : Watches(c, k, w) => w \in DOMAIN res.workers
  /\ \A c, w : Holds(c, w) => w \in DOMAIN res.workers
  /\ \A w : InPool(w) => w \in DOMAIN res.workers
  /\ \A w \in DOMAIN res.workers : WorkerAt(w, "exited") \/ InPool(w) \/ (\E c : Holds(c, w)) \/ (\E c, k : Watches(c, k, w))

\* No worker is twice in the pool.
PoolOnce == \A i, j \in DOMAIN res.pool : res.pool[i] = res.pool[j] => i = j

\* What a worker does in each of the places.
Watching(x, c, k) ==
  /\ x.data = <<c, k>>
  /\ \/ x.pc = "waiting" /\ x.command /\ x.cmd = "exec" /\ ~x.done
     \/ x.pc \in Running /\ ~x.command /\ ~x.done
     \/ x.pc \in {"start", "waiting"} /\ ~x.command /\ x.done
Ending(x) == x.pc = "exited" \/ (x.pc = "waiting" /\ x.command /\ x.cmd = "stop")
Resting(x) == x.pc \in {"start", "waiting"} /\ ~x.command
ReadyRests(x) == x.ready => x.pc = "waiting" /\ ~x.command
EndPcs == {"discarded", "emptied"}
HeldAt(w) ==
  \A c : Holds(c, w) => /\ res.callers[c].pc \in EndPcs => Ending(res.workers[w])
                        /\ res.callers[c].pc \notin EndPcs => Resting(res.workers[w])
                        /\ res.callers[c].pc = "ready" => ~res.workers[w].done
WatchedAt(w) == \A c, k : Watches(c, k, w) => Watching(res.workers[w], c, k) /\ ~res.callers[c].data[k].freed
WorkerOk(w) ==
  /\ ReadyRests(res.workers[w])
  /\ InPool(w) => Resting(res.workers[w])
  /\ HeldAt(w)
  /\ WatchedAt(w)
WorkersAt == \A w \in DOMAIN res.workers : WorkerOk(w)

\* What a caller has at each point of a call.
NoneWatched(x) == \A j \in DOMAIN x.data : x.data[j].worker = 0
Phase(x) ==
  /\ x.pc = "begin" => NoneWatched(x)
  /\ x.pc \in CleanPcs \cup {"program", "answered", "raised"} => NoneWatched(x)
  /\ x.pc \in {"submit", "ready"} => \A j \in DOMAIN x.data : ~x.data[j].freed /\ (j >= x.k => x.data[j].worker = 0)
  /\ x.pc = "ready" => x.k \in DOMAIN x.data
  /\ x.pc \in {"free", "discard", "discarded"} => \A j \in DOMAIN x.data : j < x.k => x.data[j].worker = 0
CallPhases == \A c \in Callers : Phase(res.callers[c])

\* The count of the workers in use, and the end of the program.
Cleaning == res.callers[0].pc \in CleanPcs
Busy == {w \in DOMAIN res.workers : (\E c : Readies(c, w)) \/ (\E c, k : Watches(c, k, w))}
CountExact ==
  /\ ~Cleaning => res.current = Cardinality(Busy)
  /\ Cleaning => res.current >= 0
AtEnd ==
  /\ Cleaning => \A c \in Callers : c # 0 => Ended(c) /\ (Returned(c) => res.callers[c].call = SelectCalls)
  /\ \A c \in Callers : c # 0 => res.callers[c].pc \notin CleanPcs
  /\ Caller(0, "exit") => res.pool = <<>>

SelectInv == SelectTypes /\ OnePlace /\ Placed /\ PoolOnce /\ WorkersAt /\ CallPhases /\ CountExact /\ AtEnd

\* Caller 0 ends the program.
LEMMA OneCalls ==
  ASSUME IsJob
  PROVE  0 \in Callers
BY DEF Callers

\* The workers in use are finitely many.
LEMMA BusyFinite ==
  ASSUME SelectTypes
  PROVE  IsFiniteSet(Busy) /\ Cardinality(Busy) \in Nat
<1>1. res.workers \in Seq(WorkerSet) /\ Len(res.workers) \in Nat /\ DOMAIN res.workers = 1 .. Len(res.workers)
  BY DEF SelectTypes
<1>2. IsFiniteSet(DOMAIN res.workers)
  <2>1. \A n \in Nat : IsFiniteSet(1 .. n)
    BY FS_Interval
  <2> QED BY <1>1, <2>1
<1>3. Busy \subseteq DOMAIN res.workers
  BY DEF Busy
<1> QED BY <1>2, <1>3, FS_Subset, FS_CardinalityType

\* A worker that runs a job has data of a caller.
LEMMA RunningWatched ==
  ASSUME SelectInv, NEW w \in DOMAIN res.workers, res.workers[w].pc \in Running
  PROVE  \E c, k : Watches(c, k, w)
<1> DEFINE x == res.workers[w]
<1>1. ~Resting(x) /\ ~Ending(x) /\ ~WorkerAt(w, "exited")
  BY DEF Resting, Ending, Running, WorkerAt
<1>2. WorkerOk(w)
  BY DEF SelectInv, WorkersAt
<1>3. ~InPool(w) /\ ~\E c : Holds(c, w)
  BY <1>1, <1>2 DEF WorkerOk, HeldAt
<1> QED BY <1>1, <1>3 DEF SelectInv, Placed

\* A lost worker is in the hand of a caller or has its data.
LEMMA LostPlace ==
  ASSUME SelectTypes, NEW w, Lost(w)
  PROVE  (\E c : Holds(c, w)) \/ (\E c, k : Watches(c, k, w))
<1>1. PICK c \in DOMAIN job.queries : Interrupted(c) /\ (w \in Watched(c) \/ (Caller(c, "lost") /\ res.callers[c].using = w))
  BY DEF Lost
<1>2. c \in Callers
  BY DEF Callers
<1>3. CASE w \in Watched(c)
  <2>1. PICK k \in DOMAIN res.callers[c].data : res.callers[c].data[k].worker = w /\ w # 0
    BY <1>3 DEF Watched
  <2>2. Watches(c, k, w)
    BY <1>2, <2>1 DEF Watches
  <2> QED BY <2>2
<1>4. CASE Caller(c, "lost") /\ res.callers[c].using = w
  <2>1. Holds(c, w)
    BY <1>2, <1>4 DEF Holds, HoldPcs, Caller
  <2> QED BY <2>1
<1> QED BY <1>1, <1>3, <1>4

\* When no call is under way, a worker that has data is lost,
LEMMA LostWatched ==
  ASSUME SelectInv, Caller(0, "program") \/ Caller(0, "exit"), \A c \in DOMAIN job.queries : Ended(c)
  PROVE  \A c, k, w : Watches(c, k, w) => Lost(w)
<1> SUFFICES ASSUME NEW c, NEW k, NEW w, Watches(c, k, w) PROVE Lost(w)
  OBVIOUS
<1>1. c \in Callers /\ k \in DOMAIN res.callers[c].data /\ res.callers[c].data[k].worker = w /\ w # 0
  BY DEF Watches
<1>2. ~NoneWatched(res.callers[c]) /\ Phase(res.callers[c])
  BY <1>1 DEF NoneWatched, SelectInv, CallPhases
<1>3. res.callers[c].pc \notin CleanPcs \cup {"program", "answered", "raised"}
  BY <1>2 DEF Phase
<1>4. c # 0
  BY <1>3 DEF Caller, CleanPcs
<1>5. c \in DOMAIN job.queries /\ Interrupted(c)
  BY <1>1, <1>3, <1>4 DEF Callers, Ended, Returned
<1>6. w \in Watched(c)
  BY <1>1 DEF Watched
<1> QED BY <1>5, <1>6 DEF Lost

\* and so is one in the hand of a caller.
LEMMA LostHeld ==
  ASSUME SelectInv, Caller(0, "program") \/ Caller(0, "exit"), \A c \in DOMAIN job.queries : Ended(c)
  PROVE  \A c, w : Holds(c, w) => Lost(w) /\ Readies(c, w)
<1> SUFFICES ASSUME NEW c, NEW w, Holds(c, w) PROVE Lost(w) /\ Readies(c, w)
  OBVIOUS
<1>1. c \in Callers /\ res.callers[c].pc \in HoldPcs /\ res.callers[c].using = w
  BY DEF Holds
<1>2. c # 0
  BY <1>1 DEF Caller, HoldPcs
<1>3. c \in DOMAIN job.queries /\ Ended(c)
  BY <1>1, <1>2 DEF Callers
<1>4. res.callers[c].pc = "lost"
  BY <1>1, <1>3 DEF Ended, Returned, Interrupted, HoldPcs
<1> QED BY <1>1, <1>3, <1>4 DEF Lost, Readies, Interrupted, Caller

\* The invariant gives the property.
LEMMA InvOwned ==
  ASSUME SelectInv
  PROVE  WorkersOwned
<1>0. SelectTypes /\ IsJob /\ 0 \in Callers
  BY OneCalls DEF SelectInv, SelectTypes
<1>1. ASSUME NEW w \in DOMAIN res.workers, res.workers[w].pc \notin {"start", "waiting", "exited"}
      PROVE  ~JobData(res, w).freed /\ JobData(res, w).worker = w
  <2>1. res.workers[w] \in WorkerSet
    BY <1>0 DEF SelectTypes
  <2>2. res.workers[w].pc \in Running
    BY <1>1, <2>1 DEF WorkerSet
  <2>3. PICK c, k : Watches(c, k, w)
    BY <2>2, RunningWatched
  <2>4. res.workers[w].data = <<c, k>> /\ ~res.callers[c].data[k].freed
    BY <2>3 DEF SelectInv, WorkersAt, WorkerOk, WatchedAt, Watching
  <2>5. JobData(res, w) = res.callers[c].data[k]
    BY <2>4 DEF JobData
  <2> QED BY <2>3, <2>4, <2>5 DEF Watches
<1>2. ASSUME NEW i \in DOMAIN res.pool
      PROVE  Idle(res.pool[i]) /\ ~Lost(res.pool[i]) /\ \A j \in DOMAIN res.pool : res.pool[i] = res.pool[j] => i = j
  <2>1. InPool(res.pool[i])
    BY DEF InPool
  <2>2. res.pool[i] \in DOMAIN res.workers
    BY <2>1 DEF SelectInv, Placed
  <2>3. Resting(res.workers[res.pool[i]])
    BY <2>1, <2>2 DEF SelectInv, WorkersAt, WorkerOk
  <2>4. ~Lost(res.pool[i])
    BY <1>0, <2>1, LostPlace DEF SelectInv, OnePlace
  <2> QED BY <2>3, <2>4 DEF Resting, Idle, SelectInv, PoolOnce
<1>3. Len(res.pool) <= THREAD_WORKERS_MAX /\ res.current >= 0
  BY <1>0, BusyFinite DEF SelectInv, SelectTypes, CountExact
<1>4. ASSUME Caller(0, "program"), \A c \in DOMAIN job.queries : Ended(c)
      PROVE  /\ res.current = Cardinality({w \in DOMAIN res.workers : Lost(w)})
             /\ \A w \in DOMAIN res.workers : WorkerAt(w, "exited") \/ InPool(w) \/ Lost(w)
  <2>1. ~Cleaning
    BY <1>4 DEF Caller, Cleaning, CleanPcs
  <2>2. \A c, w : Holds(c, w) => Lost(w) /\ Readies(c, w)
    BY <1>4, LostHeld
  <2>3. \A c, k, w : Watches(c, k, w) => Lost(w)
    BY <1>4, LostWatched
  <2>4. Busy = {w \in DOMAIN res.workers : Lost(w)}
    <3>1. \A c, w : Readies(c, w) => Lost(w)
      BY <2>2 DEF Readies, Holds, HoldPcs
    <3>2. \A w : Lost(w) => (\E c : Readies(c, w)) \/ (\E c, k : Watches(c, k, w))
      BY <1>0, <2>2, LostPlace
    <3> QED BY <2>3, <3>1, <3>2 DEF Busy
  <2> QED BY <2>1, <2>2, <2>3, <2>4 DEF SelectInv, CountExact, Placed
<1>5. ASSUME Caller(0, "exit")
      PROVE  \A w \in DOMAIN res.workers : WorkerAt(w, "exited") \/ Lost(w)
  <2>1. Cleaning
    BY <1>5 DEF Caller, Cleaning, CleanPcs
  <2>2. \A c \in DOMAIN job.queries : Ended(c)
    BY <1>0, <2>1, SelectAssumption DEF SelectInv, AtEnd, IsJob, Callers
  <2>3. \A c, w : Holds(c, w) => Lost(w)
    BY <1>5, <2>2, LostHeld
  <2>4. \A c, k, w : Watches(c, k, w) => Lost(w)
    BY <1>5, <2>2, LostWatched
  <2>5. \A w : ~InPool(w)
    BY <1>5 DEF SelectInv, AtEnd, InPool
  <2> QED BY <2>3, <2>4, <2>5 DEF SelectInv, Placed
<1> QED BY <1>1, <1>2, <1>3, <1>4, <1>5 DEF WorkersOwned

\* Two records of a worker that differ in the stop event at most.
SameWorker(x, y) ==
  /\ y.pc = x.pc /\ y.cmd = x.cmd /\ y.data = x.data
  /\ y.ready = x.ready /\ y.command = x.command /\ y.done = x.done

\* A step of a caller that leaves every worker in its place.
LEMMA CallerPlaces ==
  ASSUME SelectInv, SelectTypes', UNCHANGED job, NEW c \in Callers,
         \A b \in Callers : b # c => res'.callers[b] = res.callers[b],
         res'.pool = res.pool, res'.current = res.current, DOMAIN res'.workers = DOMAIN res.workers,
         \A w \in DOMAIN res.workers : SameWorker(res.workers[w], res'.workers[w]),
         res.callers[c].pc \notin HoldPcs, res'.callers[c].pc \notin HoldPcs,
         \A k, w : Watches(c, k, w)' <=> Watches(c, k, w),
         \A k, w : Watches(c, k, w) => ~res'.callers[c].data[k].freed,
         Phase(res'.callers[c])
  PROVE  OnePlace' /\ Placed' /\ PoolOnce' /\ WorkersAt' /\ CallPhases' /\ Busy' = Busy
<1>0. Callers' = Callers /\ 0 \in Callers
  BY OneCalls DEF SelectInv, SelectTypes, Callers
<1>1. \A b, k, w : Watches(b, k, w)' <=> Watches(b, k, w)
  <2> SUFFICES ASSUME NEW b, NEW k, NEW w PROVE Watches(b, k, w)' <=> Watches(b, k, w)
    OBVIOUS
  <2>1. CASE b = c
    BY <2>1
  <2>2. CASE b # c /\ b \in Callers
    <3>1. res'.callers[b] = res.callers[b]
      BY <2>2
    <3> QED BY <1>0, <3>1 DEF Watches
  <2>3. CASE b \notin Callers
    BY <1>0, <2>3 DEF Watches
  <2> QED BY <2>1, <2>2, <2>3
<1>2. \A b, w : Holds(b, w)' <=> Holds(b, w)
  BY <1>0 DEF Holds
<1>3. \A b, w : Readies(b, w)' <=> Readies(b, w)
  BY <1>0 DEF Readies, HoldPcs
<1>4. \A w : InPool(w)' <=> InPool(w)
  BY DEF InPool
<1>5. \A w : Holds(c, w) <=> FALSE
  BY DEF Holds
<1>6. OnePlace'
  BY <1>1, <1>2, <1>4 DEF SelectInv, OnePlace
<1>7. Placed'
  <2>1. \A w \in DOMAIN res.workers : WorkerAt(w, "exited") => WorkerAt(w, "exited")'
    BY DEF WorkerAt, SameWorker
  <2> QED BY <1>1, <1>2, <1>4, <2>1 DEF SelectInv, Placed
<1>8. PoolOnce'
  BY DEF SelectInv, PoolOnce
<1>9. WorkersAt'
  <2> SUFFICES ASSUME NEW w \in DOMAIN res.workers PROVE WorkerOk(w)'
    BY DEF WorkersAt
  <2> DEFINE x == res.workers[w]
             y == res'.workers[w]
  <2>0. WorkerOk(w) /\ SameWorker(x, y)
    BY DEF SelectInv, WorkersAt
  <2> HIDE DEF x, y
  <2>1. ReadyRests(y) <=> ReadyRests(x)
    BY <2>0 DEF SameWorker, ReadyRests
  <2>2. (Resting(y) <=> Resting(x)) /\ (Ending(y) <=> Ending(x))
    BY <2>0 DEF SameWorker, Resting, Ending
  <2>3. \A b, k : Watching(y, b, k) <=> Watching(x, b, k)
    BY <2>0 DEF SameWorker, Watching
  <2>4. ReadyRests(y) /\ (InPool(w)' => Resting(y))
    BY <1>4, <2>0, <2>1, <2>2 DEF WorkerOk, x
  <2>5. HeldAt(w)'
    <3> SUFFICES ASSUME NEW b, Holds(b, w)
                 PROVE  /\ res'.callers[b].pc \in EndPcs => Ending(y)
                        /\ res'.callers[b].pc \notin EndPcs => Resting(y)
                        /\ res'.callers[b].pc = "ready" => ~y.done
      BY <1>2 DEF HeldAt, y
    <3>1. b \in Callers /\ b # c
      BY <1>5 DEF Holds
    <3>2. res'.callers[b] = res.callers[b]
      BY <3>1
    <3>3. /\ res.callers[b].pc \in EndPcs => Ending(x)
          /\ res.callers[b].pc \notin EndPcs => Resting(x)
          /\ res.callers[b].pc = "ready" => ~x.done
      BY <2>0 DEF WorkerOk, HeldAt, x
    <3>4. y.done = x.done
      BY <2>0 DEF SameWorker
    <3> QED BY <2>2, <3>2, <3>3, <3>4
  <2>6. WatchedAt(w)'
    <3> SUFFICES ASSUME NEW b, NEW k, Watches(b, k, w) PROVE Watching(y, b, k) /\ ~res'.callers[b].data[k].freed
      BY <1>1 DEF WatchedAt, y
    <3>1. Watching(x, b, k) /\ ~res.callers[b].data[k].freed
      BY <2>0 DEF WorkerOk, WatchedAt, x
    <3>2. b \in Callers
      BY DEF Watches
    <3> QED BY <2>3, <3>1, <3>2
  <2> QED BY <2>4, <2>5, <2>6 DEF WorkerOk, y
<1>10. CallPhases'
  BY <1>0 DEF SelectInv, CallPhases
<1>11. Busy' = Busy
  BY <1>1, <1>3 DEF Busy
<1> QED BY <1>6, <1>7, <1>8, <1>9, <1>10, <1>11

\* The same, for a caller that does not end the program.
LEMMA CallerStep ==
  ASSUME SelectInv, SelectTypes', UNCHANGED job, NEW c \in Callers,
         \A b \in Callers : b # c => res'.callers[b] = res.callers[b],
         res'.pool = res.pool, res'.current = res.current, DOMAIN res'.workers = DOMAIN res.workers,
         \A w \in DOMAIN res.workers : SameWorker(res.workers[w], res'.workers[w]),
         res.callers[c].pc \notin HoldPcs, res'.callers[c].pc \notin HoldPcs \cup CleanPcs,
         \A k, w : Watches(c, k, w)' <=> Watches(c, k, w),
         \A k, w : Watches(c, k, w) => ~res'.callers[c].data[k].freed,
         Phase(res'.callers[c]), ~Cleaning
  PROVE  SelectInv'
<1>1. Callers' = Callers /\ 0 \in Callers
  BY OneCalls DEF SelectInv, SelectTypes, Callers
<1>2. OnePlace' /\ Placed' /\ PoolOnce' /\ WorkersAt' /\ CallPhases' /\ Busy' = Busy
  <2>1. res'.callers[c].pc \notin HoldPcs
    OBVIOUS
  <2> QED BY <2>1, CallerPlaces
<1>3. ~Cleaning'
  BY <1>1 DEF Cleaning
<1>4. CountExact'
  BY <1>2, <1>3 DEF SelectInv, CountExact
<1>5. AtEnd'
  <2>1. ~Caller(0, "exit")'
    BY <1>3 DEF Caller, Cleaning, CleanPcs
  <2> QED BY <1>1, <1>3, <2>1 DEF SelectInv, AtEnd
<1> QED BY <1>2, <1>4, <1>5 DEF SelectInv

\* A step of worker w that leaves every worker in its place.
LEMMA WorkerStep ==
  ASSUME SelectInv, SelectTypes', UNCHANGED job, NEW w \in DOMAIN res.workers,
         \A c \in Callers : /\ res'.callers[c].pc = res.callers[c].pc /\ res'.callers[c].using = res.callers[c].using
                            /\ res'.callers[c].k = res.callers[c].k /\ res'.callers[c].call = res.callers[c].call
                            /\ DOMAIN res'.callers[c].data = DOMAIN res.callers[c].data
                            /\ \A k \in DOMAIN res.callers[c].data : /\ res'.callers[c].data[k].worker = res.callers[c].data[k].worker
                                                                     /\ res'.callers[c].data[k].freed = res.callers[c].data[k].freed,
         res'.pool = res.pool, res'.current = res.current, DOMAIN res'.workers = DOMAIN res.workers,
         \A v \in DOMAIN res.workers : v # w => res'.workers[v] = res.workers[v],
         WorkerAt(w, "exited") => WorkerAt(w, "exited")',
         ReadyRests(res'.workers[w]),
         InPool(w) => Resting(res'.workers[w]),
         \A c : Holds(c, w) => /\ res.callers[c].pc \in EndPcs => Ending(res'.workers[w])
                               /\ res.callers[c].pc \notin EndPcs => Resting(res'.workers[w])
                               /\ res.callers[c].pc = "ready" => ~res'.workers[w].done,
         \A c, k : Watches(c, k, w) => Watching(res'.workers[w], c, k)
  PROVE  SelectInv'
<1>0. Callers' = Callers /\ 0 \in Callers
  BY OneCalls DEF SelectInv, SelectTypes, Callers
<1>1. \A b, k, v : Watches(b, k, v)' <=> Watches(b, k, v)
  BY <1>0 DEF Watches
<1>2. \A b, v : Holds(b, v)' <=> Holds(b, v)
  BY <1>0 DEF Holds
<1>3. \A b, v : Readies(b, v)' <=> Readies(b, v)
  BY <1>0 DEF Readies, HoldPcs
<1>4. \A v : InPool(v)' <=> InPool(v)
  BY DEF InPool
<1>6. OnePlace'
  BY <1>1, <1>2, <1>4 DEF SelectInv, OnePlace
<1>7. Placed'
  <2>1. \A v \in DOMAIN res.workers : WorkerAt(v, "exited") => WorkerAt(v, "exited")'
    BY DEF WorkerAt
  <2> QED BY <1>1, <1>2, <1>4, <2>1 DEF SelectInv, Placed
<1>8. PoolOnce'
  BY DEF SelectInv, PoolOnce
<1>9. WorkersAt'
  <2> SUFFICES ASSUME NEW v \in DOMAIN res.workers PROVE WorkerOk(v)'
    BY DEF WorkersAt
  <2>0. WorkerOk(v)
    BY DEF SelectInv, WorkersAt
  <2>1. ReadyRests(res'.workers[v]) /\ (InPool(v)' => Resting(res'.workers[v]))
    BY <1>4, <2>0 DEF WorkerOk
  <2>2. HeldAt(v)'
    <3> SUFFICES ASSUME NEW b, Holds(b, v)
                 PROVE  /\ res'.callers[b].pc \in EndPcs => Ending(res'.workers[v])
                        /\ res'.callers[b].pc \notin EndPcs => Resting(res'.workers[v])
                        /\ res'.callers[b].pc = "ready" => ~res'.workers[v].done
      BY <1>2 DEF HeldAt
    <3>1. res'.callers[b].pc = res.callers[b].pc
      BY DEF Holds
    <3>3. v # w => /\ res.callers[b].pc \in EndPcs => Ending(res'.workers[v])
                   /\ res.callers[b].pc \notin EndPcs => Resting(res'.workers[v])
                   /\ res.callers[b].pc = "ready" => ~res'.workers[v].done
      BY <2>0 DEF WorkerOk, HeldAt
    <3> QED BY <3>1, <3>3
  <2>3. WatchedAt(v)'
    <3> SUFFICES ASSUME NEW b, NEW k, Watches(b, k, v) PROVE Watching(res'.workers[v], b, k) /\ ~res'.callers[b].data[k].freed
      BY <1>1 DEF WatchedAt
    <3>1. Watching(res.workers[v], b, k) /\ ~res.callers[b].data[k].freed
      BY <2>0 DEF WorkerOk, WatchedAt
    <3>2. Watching(res'.workers[v], b, k)
      BY <3>1
    <3>3. res'.callers[b].data[k].freed = res.callers[b].data[k].freed
      BY DEF Watches
    <3> QED BY <3>1, <3>2, <3>3
  <2> QED BY <2>1, <2>2, <2>3 DEF WorkerOk
<1>10. CallPhases'
  <2> SUFFICES ASSUME NEW c \in Callers PROVE Phase(res'.callers[c])
    BY <1>0 DEF CallPhases
  <2>1. Phase(res.callers[c])
    BY DEF SelectInv, CallPhases
  <2> QED BY <2>1 DEF Phase, NoneWatched
<1>11. Cleaning' <=> Cleaning
  BY <1>0 DEF Cleaning
<1>12. Busy' = Busy
  BY <1>1, <1>3 DEF Busy
<1>13. CountExact'
  BY <1>11, <1>12 DEF SelectInv, CountExact
<1>14. AtEnd'
  <2>1. Caller(0, "exit")' <=> Caller(0, "exit")
    BY <1>0 DEF Caller
  <2>2. \A c \in Callers : (Ended(c)' <=> Ended(c)) /\ (Returned(c)' <=> Returned(c))
    BY DEF Ended, Returned, Interrupted
  <2> QED BY <1>0, <1>11, <2>1, <2>2 DEF SelectInv, AtEnd
<1> QED BY <1>6, <1>7, <1>8, <1>9, <1>10, <1>13, <1>14 DEF SelectInv

\* A place in which a worker is.
LEMMA PlaceOf ==
  ASSUME SelectInv, NEW w \in DOMAIN res.workers, ~WorkerAt(w, "exited")
  PROVE  InPool(w) \/ (\E c : Holds(c, w)) \/ (\E c, k : Watches(c, k, w))
BY DEF SelectInv, Placed

\* The fields of a worker.
LEMMA WorkerTypes ==
  ASSUME SelectInv, NEW w \in DOMAIN res.workers
  PROVE  res.workers[w] \in WorkerSet
BY DEF SelectInv, SelectTypes

\* The state of a step that changes the record of one worker only.
LEMMA SetWorkerTypes ==
  ASSUME SelectInv, UNCHANGED job, NEW w \in DOMAIN res.workers, NEW y \in WorkerSet,
         res' = [res EXCEPT !.workers = [res.workers EXCEPT ![w] = y]]
  PROVE  /\ SelectTypes'
         /\ res'.callers = res.callers /\ res'.pool = res.pool /\ res'.current = res.current
         /\ DOMAIN res'.workers = DOMAIN res.workers /\ res'.workers[w] = y
         /\ \A v \in DOMAIN res.workers : v # w => res'.workers[v] = res.workers[v]
<1>0. SelectTypes
  BY DEF SelectInv
<1>1. Callers' = Callers /\ WorkerSet' = WorkerSet /\ IsJob'
  BY <1>0 DEF Callers, WorkerSet, IsJob, SelectTypes
<1>2. /\ DOMAIN res' = ResFields
      /\ res'.callers = res.callers /\ res'.pool = res.pool /\ res'.current = res.current /\ res'.assoc = res.assoc
      /\ res'.workers = [res.workers EXCEPT ![w] = y]
  BY <1>0 DEF SelectTypes, ResFields
<1>3. [res.workers EXCEPT ![w] = y] \in Seq(WorkerSet) /\ DOMAIN [res.workers EXCEPT ![w] = y] = DOMAIN res.workers
  BY <1>0 DEF SelectTypes
<1>4. res'.workers[w] = y /\ \A v \in DOMAIN res.workers : v # w => res'.workers[v] = res.workers[v]
  BY <1>2
<1>5. SelectTypes'
  BY <1>0, <1>1, <1>2, <1>3 DEF SelectTypes
<1> QED BY <1>2, <1>3, <1>4, <1>5

\* A worker becomes ready.
LEMMA WaitStarts ==
  ASSUME SelectInv, UNCHANGED job, NEW w \in DOMAIN res.workers, WorkerAt(w, "start"),
         res' = [res EXCEPT !.workers[w].ready = TRUE, !.workers[w].pc = "waiting"]
  PROVE  SelectInv'
<1> DEFINE x == res.workers[w]
           y == [x EXCEPT !.ready = TRUE, !.pc = "waiting"]
<1>0. x \in WorkerSet /\ x.pc = "start" /\ WorkerOk(w)
  BY WorkerTypes DEF WorkerAt, SelectInv, WorkersAt
<1>1. res' = [res EXCEPT !.workers = [res.workers EXCEPT ![w] = y]]
  OBVIOUS
<1>2. y \in WorkerSet /\ y.pc = "waiting" /\ y.data = x.data /\ y.cmd = x.cmd
  <2> HIDE DEF x
  <2> QED BY <1>0 DEF WorkerSet
<1>3. y.command = x.command /\ y.done = x.done
  <2> HIDE DEF x
  <2> QED BY <1>0 DEF WorkerSet
<1> HIDE DEF y
<1>4. /\ SelectTypes'
      /\ res'.callers = res.callers /\ res'.pool = res.pool /\ res'.current = res.current
      /\ DOMAIN res'.workers = DOMAIN res.workers /\ res'.workers[w] = y
      /\ \A v \in DOMAIN res.workers : v # w => res'.workers[v] = res.workers[v]
  BY <1>1, <1>2, SetWorkerTypes, SMTT(20), ZenonT(20)
<1>5. InPool(w) => Resting(x)
  BY <1>0 DEF WorkerOk
<1>6. \A c : Holds(c, w) => res.callers[c].pc \notin EndPcs /\ Resting(x) /\ (res.callers[c].pc = "ready" => ~x.done)
  BY <1>0 DEF WorkerOk, HeldAt, Ending
<1>7. \A c, k : Watches(c, k, w) => x.data = <<c, k>> /\ Resting(x) /\ x.done
  BY <1>0 DEF WorkerOk, WatchedAt, Watching, Resting, Running
<1>8. Resting(x)
  BY <1>0, <1>5, <1>6, <1>7, PlaceOf DEF WorkerAt
<1>9. Resting(y) /\ ReadyRests(y)
  BY <1>2, <1>3, <1>8 DEF Resting, ReadyRests
<1>10. \A c, k : Watches(c, k, w) => Watching(y, c, k)
  BY <1>2, <1>3, <1>7, <1>9 DEF Watching, Resting
<1>11. ~WorkerAt(w, "exited")
  BY <1>0 DEF WorkerAt
<1> HIDE DEF x
<1> QED BY <1>3, <1>4, <1>6, <1>9, <1>10, <1>11, WorkerStep

\* A worker takes a command.
LEMMA WaitCommand ==
  ASSUME SelectInv, UNCHANGED job, NEW w \in DOMAIN res.workers, WorkerAt(w, "waiting"), res.workers[w].command,
         res' = [res EXCEPT !.workers[w].command = FALSE,
                            !.workers[w].pc = CASE res.workers[w].cmd = "exec" -> "job" [] res.workers[w].cmd = "stop" -> "exited" [] OTHER -> "start"]
  PROVE  SelectInv'
<1> DEFINE x == res.workers[w]
           p == CASE x.cmd = "exec" -> "job" [] x.cmd = "stop" -> "exited" [] OTHER -> "start"
           y == [x EXCEPT !.command = FALSE, !.pc = p]
<1>0. x \in WorkerSet /\ x.pc = "waiting" /\ x.command /\ WorkerOk(w)
  BY WorkerTypes DEF WorkerAt, SelectInv, WorkersAt
<1>1. res' = [res EXCEPT !.workers = [res.workers EXCEPT ![w] = y]]
  OBVIOUS
<1>p. p \in {"job", "exited", "start"} /\ (x.cmd = "exec" => p = "job") /\ (x.cmd = "stop" => p = "exited")
  OBVIOUS
<1> HIDE DEF p
<1>2. y \in WorkerSet /\ y.pc = p /\ y.data = x.data /\ y.cmd = x.cmd
  <2> HIDE DEF x
  <2> QED BY <1>0, <1>p DEF WorkerSet, Running
<1>3. y.command = FALSE /\ y.done = x.done /\ y.ready = x.ready
  <2> HIDE DEF x
  <2> QED BY <1>0 DEF WorkerSet
<1> HIDE DEF y
<1>4. /\ SelectTypes'
      /\ res'.callers = res.callers /\ res'.pool = res.pool /\ res'.current = res.current
      /\ DOMAIN res'.workers = DOMAIN res.workers /\ res'.workers[w] = y
      /\ \A v \in DOMAIN res.workers : v # w => res'.workers[v] = res.workers[v]
  BY <1>1, <1>2, SetWorkerTypes, SMTT(20), ZenonT(20)
<1>5. ~InPool(w)
  BY <1>0 DEF WorkerOk, Resting
<1>6. \A c : Holds(c, w) => res.callers[c].pc \in EndPcs /\ x.cmd = "stop"
  BY <1>0 DEF WorkerOk, HeldAt, Ending, Resting
<1>7. \A c, k : Watches(c, k, w) => x.data = <<c, k>> /\ x.cmd = "exec" /\ ~x.done
  BY <1>0 DEF WorkerOk, WatchedAt, Watching, Running
<1>8. ~x.ready
  BY <1>0 DEF WorkerOk, ReadyRests
<1>9. ReadyRests(y)
  BY <1>3, <1>8 DEF ReadyRests
<1>10. \A c : Holds(c, w) => res.callers[c].pc \in EndPcs /\ Ending(y) /\ res.callers[c].pc # "ready"
  BY <1>2, <1>6, <1>p DEF Ending, EndPcs
<1>11. \A c, k : Watches(c, k, w) => Watching(y, c, k)
  BY <1>2, <1>3, <1>7, <1>p DEF Watching, Running
<1>12. ~WorkerAt(w, "exited")
  BY <1>0 DEF WorkerAt
<1> HIDE DEF x
<1> QED BY <1>4, <1>5, <1>9, <1>10, <1>11, <1>12, WorkerStep

\* A worker ends its job.
LEMMA WaitFinish ==
  ASSUME SelectInv, UNCHANGED job, NEW w \in DOMAIN res.workers, WorkerAt(w, "finish"),
         res' = [res EXCEPT !.workers[w].done = TRUE, !.workers[w].pc = "start"]
  PROVE  SelectInv'
<1> DEFINE x == res.workers[w]
           y == [x EXCEPT !.done = TRUE, !.pc = "start"]
<1>0. x \in WorkerSet /\ x.pc = "finish" /\ WorkerOk(w)
  BY WorkerTypes DEF WorkerAt, SelectInv, WorkersAt
<1>1. res' = [res EXCEPT !.workers = [res.workers EXCEPT ![w] = y]]
  OBVIOUS
<1>2. y \in WorkerSet /\ y.pc = "start" /\ y.data = x.data /\ y.cmd = x.cmd
  <2> HIDE DEF x
  <2> QED BY <1>0 DEF WorkerSet
<1>3. y.command = x.command /\ y.done = TRUE /\ y.ready = x.ready
  <2> HIDE DEF x
  <2> QED BY <1>0 DEF WorkerSet
<1> HIDE DEF y
<1>4. /\ SelectTypes'
      /\ res'.callers = res.callers /\ res'.pool = res.pool /\ res'.current = res.current
      /\ DOMAIN res'.workers = DOMAIN res.workers /\ res'.workers[w] = y
      /\ \A v \in DOMAIN res.workers : v # w => res'.workers[v] = res.workers[v]
  BY <1>1, <1>2, SetWorkerTypes, SMTT(20), ZenonT(20)
<1>5. ~InPool(w)
  BY <1>0 DEF WorkerOk, Resting
<1>6. \A c : ~Holds(c, w)
  BY <1>0 DEF WorkerOk, HeldAt, Ending, Resting
<1>7. \A c, k : Watches(c, k, w) => x.data = <<c, k>> /\ ~x.command
  BY <1>0 DEF WorkerOk, WatchedAt, Watching, Running
<1>8. ~x.ready
  BY <1>0 DEF WorkerOk, ReadyRests
<1>9. ReadyRests(y)
  BY <1>3, <1>8 DEF ReadyRests
<1>10. \A c, k : Watches(c, k, w) => Watching(y, c, k)
  BY <1>2, <1>3, <1>7 DEF Watching
<1>11. ~WorkerAt(w, "exited")
  BY <1>0 DEF WorkerAt
<1> HIDE DEF x
<1> QED BY <1>4, <1>5, <1>6, <1>9, <1>10, <1>11, WorkerStep

\* A worker at its job has data of a caller to itself.
LEMMA AtJob ==
  ASSUME SelectInv, NEW w \in DOMAIN res.workers, res.workers[w].pc \in Running
  PROVE  \E c, k : /\ Watches(c, k, w) /\ res.workers[w].data = <<c, k>> /\ JobData(res, w) = res.callers[c].data[k]
                   /\ IsData(JobData(res, w)) /\ Watching(res.workers[w], c, k)
<1>1. PICK c, k : Watches(c, k, w)
  BY RunningWatched
<1>2. Watching(res.workers[w], c, k)
  BY <1>1 DEF SelectInv, WorkersAt, WorkerOk, WatchedAt
<1>3. res.workers[w].data = <<c, k>>
  BY <1>2 DEF Watching
<1>4. JobData(res, w) = res.callers[c].data[k]
  BY <1>3 DEF JobData
<1>5. c \in Callers /\ k \in DOMAIN res.callers[c].data
  BY <1>1 DEF Watches
<1>6. IsData(res.callers[c].data[k])
  BY <1>5 DEF SelectInv, SelectTypes, IsCaller, IsDataList
<1> QED BY <1>1, <1>2, <1>3, <1>4, <1>6

\* The data that a job may leave: the same worker, and freed no more than it was.
Leaves(d, e) == DOMAIN e = DataFields /\ e.worker = d.worker /\ e.freed = d.freed

\* A step of the job of a worker that leaves worker and freed of its data alone.
LEMMA WorksStep ==
  ASSUME SelectInv, UNCHANGED job, NEW w \in DOMAIN res.workers, res.workers[w].pc \in Running,
         NEW d, Leaves(JobData(res, w), d), NEW p \in Running,
         res'.callers = Works(res, w, d, p).callers, res'.workers = Works(res, w, d, p).workers,
         res'.pool = res.pool, res'.current = res.current, DOMAIN res' = ResFields,
         DOMAIN res'.assoc = SocketFds,
         \A fd \in SocketFds : res'.assoc[fd] # <<>> => res'.assoc[fd][1] \in DOMAIN res.workers
  PROVE  SelectInv'
<1>0. SelectTypes
  BY DEF SelectInv
<1>1. PICK c, k : /\ Watches(c, k, w) /\ res.workers[w].data = <<c, k>> /\ JobData(res, w) = res.callers[c].data[k]
                  /\ IsData(JobData(res, w)) /\ Watching(res.workers[w], c, k)
  BY AtJob
<1> DEFINE x == res.workers[w]
           y == [x EXCEPT !.pc = p]
           a == res.callers[c]
           data == [a.data EXCEPT ![k] = d]
           b == [a EXCEPT !.data = data]
<1>2. c \in Callers /\ k \in DOMAIN a.data /\ x.data[1] = c /\ x.data[2] = k
  BY <1>1 DEF Watches
<1>3. res'.callers = [res.callers EXCEPT ![c] = b] /\ res'.workers = [res.workers EXCEPT ![w] = y]
  BY <1>0, <1>2 DEF Works, SelectTypes, ResFields
<1>4. x \in WorkerSet /\ WorkerOk(w)
  BY WorkerTypes DEF SelectInv, WorkersAt
<1>5. y \in WorkerSet /\ y.pc = p /\ y.data = x.data /\ y.cmd = x.cmd
  <2> HIDE DEF x
  <2> QED BY <1>4 DEF WorkerSet
<1>6. y.command = x.command /\ y.done = x.done /\ y.ready = x.ready
  <2> HIDE DEF x
  <2> QED BY <1>4 DEF WorkerSet
<1>7. IsCaller(a)
  BY <1>0, <1>2 DEF SelectTypes
<1>8. /\ DOMAIN data = DOMAIN a.data /\ data[k] = d
      /\ \A i \in DOMAIN a.data : i # k => data[i] = a.data[i]
  BY <1>2
<1>9. IsData(d) /\ d.worker = a.data[k].worker /\ d.freed = a.data[k].freed
  BY <1>1 DEF Leaves, IsData
<1> HIDE DEF data
<1>10. IsDataList(data)
  BY <1>7, <1>8, <1>9 DEF IsCaller, IsDataList
<1>11. DOMAIN b = CallerFields /\ b.data = data /\ b.pc = a.pc /\ b.call = a.call /\ b.k = a.k /\ b.using = a.using
  BY <1>7 DEF IsCaller, CallerFields
<1> HIDE DEF b, y
<1>12. IsCaller(b)
  BY <1>7, <1>10, <1>11 DEF IsCaller
<1>13. DOMAIN res'.callers = Callers /\ res'.callers[c] = b /\ \A e \in Callers : e # c => res'.callers[e] = res.callers[e]
  BY <1>0, <1>2, <1>3 DEF SelectTypes
<1>14. /\ res'.workers \in Seq(WorkerSet) /\ DOMAIN res'.workers = DOMAIN res.workers /\ res'.workers[w] = y
       /\ \A v \in DOMAIN res.workers : v # w => res'.workers[v] = res.workers[v]
  BY <1>0, <1>3, <1>5 DEF SelectTypes
<1>15. SelectTypes'
  <2>1. Callers' = Callers /\ WorkerSet' = WorkerSet /\ IsJob'
    BY <1>0 DEF Callers, WorkerSet, IsJob, SelectTypes
  <2>2. \A e \in Callers : IsCaller(res'.callers[e])
    BY <1>0, <1>12, <1>13 DEF SelectTypes
  <2> QED BY <1>0, <1>13, <1>14, <2>1, <2>2 DEF SelectTypes
<1>16. \A e \in Callers : /\ res'.callers[e].pc = res.callers[e].pc /\ res'.callers[e].using = res.callers[e].using
                          /\ res'.callers[e].k = res.callers[e].k /\ res'.callers[e].call = res.callers[e].call
                          /\ DOMAIN res'.callers[e].data = DOMAIN res.callers[e].data
                          /\ \A i \in DOMAIN res.callers[e].data : /\ res'.callers[e].data[i].worker = res.callers[e].data[i].worker
                                                                   /\ res'.callers[e].data[i].freed = res.callers[e].data[i].freed
  BY <1>8, <1>9, <1>11, <1>13
<1>17. ~InPool(w)
  BY <1>4 DEF WorkerOk, Resting, Running
<1>18. \A e : ~Holds(e, w)
  BY <1>4 DEF WorkerOk, HeldAt, Ending, Resting, Running
<1>19. \A e, j : Watches(e, j, w) => x.data = <<e, j>> /\ ~x.command /\ ~x.done
  BY <1>4 DEF WorkerOk, WatchedAt, Watching, Running
<1>20. \A e, j : Watches(e, j, w) => Watching(y, e, j)
  BY <1>5, <1>6, <1>19 DEF Watching
<1>21. ReadyRests(y) /\ ~WorkerAt(w, "exited")
  <2>1. ~x.ready
    BY <1>4 DEF WorkerOk, ReadyRests, Running
  <2> QED BY <1>6, <2>1 DEF ReadyRests, WorkerAt, Running
<1> HIDE DEF x
<1> QED BY <1>14, <1>15, <1>16, <1>17, <1>18, <1>20, <1>21, WorkerStep

\* The same, when nothing else changes.
LEMMA OnlyWorks ==
  ASSUME SelectInv, UNCHANGED job, NEW w \in DOMAIN res.workers, res.workers[w].pc \in Running,
         NEW d, Leaves(JobData(res, w), d), NEW p \in Running, res' = Works(res, w, d, p)
  PROVE  SelectInv'
<1>0. SelectTypes
  BY DEF SelectInv
<1>1. res'.pool = res.pool /\ res'.current = res.current /\ DOMAIN res' = ResFields /\ res'.assoc = res.assoc
  BY <1>0 DEF Works, SelectTypes, ResFields
<1>2. DOMAIN res'.assoc = SocketFds /\ \A fd \in SocketFds : res'.assoc[fd] # <<>> => res'.assoc[fd][1] \in DOMAIN res.workers
  BY <1>0, <1>1 DEF SelectTypes
<1> QED BY <1>1, <1>2, WorksStep

\* What the steps of a job leave in the data: the data itself,
LEMMA LeavesSame ==
  ASSUME SelectInv, NEW w \in DOMAIN res.workers, res.workers[w].pc \in Running
  PROVE  LET d == JobData(res, w) IN DOMAIN d = DataFields /\ Leaves(d, d)
BY AtJob DEF Leaves, IsData

\* with an error,
LEMMA LeavesError ==
  ASSUME NEW d, NEW e, Leaves(d, e)
  PROVE  Leaves(d, check_error(e))
BY DEF Leaves, check_error, DataFields

\* with a result,
LEMMA LeavesResult ==
  ASSUME NEW d, NEW e, Leaves(d, e), NEW q
  PROVE  Leaves(d, select_data_result_add(e, q))
BY DEF Leaves, select_data_result_add, DataFields

\* with the fields of a turn.
LEMMA LeavesFields ==
  ASSUME NEW d, NEW e, Leaves(d, e), NEW r, NEW s, NEW f
  PROVE  /\ Leaves(d, [e EXCEPT !.results = r, !.state = s, !.error = f])
         /\ Leaves(d, [e EXCEPT !.state = s]) /\ Leaves(d, [e EXCEPT !.results = r]) /\ Leaves(d, [e EXCEPT !.signaled = s])
BY DEF Leaves, DataFields

\* read_console_poll keeps the invariant.
LEMMA ConsoleStep ==
  ASSUME SelectInv, UNCHANGED job, NEW w \in DOMAIN res.workers, res.workers[w].pc \in Running, read_console_poll(w)
  PROVE  SelectInv'
<1> DEFINE d == JobData(res, w)
<1>0. Leaves(d, d) /\ "finish" \in Running /\ "dropping" \in Running /\ "job" \in Running /\ SelectTypes
  BY LeavesSame DEF Running, SelectInv
<1>1. Leaves(d, check_error(d)) /\ \A q, s : Leaves(d, [select_data_result_add(d, q) EXCEPT !.state = s])
  <2> HIDE DEF d
  <2> QED BY <1>0, LeavesError, LeavesResult, LeavesFields
<1>2. CASE ConsoleStops(w)
  BY <1>0, <1>2, OnlyWorks DEF ConsoleStops
<1>3. CASE ConsoleFails(w)
  BY <1>0, <1>1, <1>3, OnlyWorks DEF ConsoleFails
<1>4. CASE ConsoleRecord(w)
  <2>1. \/ res' = Works(res, w, d, "dropping")
        \/ res' = Works(res, w, [select_data_result_add(d, d.queries[1]) EXCEPT !.state = "signaled"], "finish")
    BY <1>4 DEF ConsoleRecord
  <2> HIDE DEF d
  <2> QED BY <1>0, <1>1, <2>1, OnlyWorks DEF d
<1>5. CASE ConsoleDrops(w)
  <2>1. CASE res' = [Works(res, w, d, "job") EXCEPT !.console = Tail(@)]
    <3> DEFINE t == Works(res, w, d, "job")
    <3>1. /\ res'.callers = t.callers /\ res'.workers = t.workers
          /\ res'.pool = res.pool /\ res'.current = res.current /\ DOMAIN res' = ResFields /\ res'.assoc = res.assoc
      BY <1>0, <2>1 DEF Works, SelectTypes, ResFields
    <3>2. DOMAIN res'.assoc = SocketFds /\ \A fd \in SocketFds : res'.assoc[fd] # <<>> => res'.assoc[fd][1] \in DOMAIN res.workers
      BY <1>0, <3>1 DEF SelectTypes
    <3> HIDE DEF d
    <3> QED BY <1>0, <3>1, <3>2, WorksStep DEF d
  <2>2. CASE res' = Works(res, w, check_error(d), "finish")
    BY <1>0, <1>1, <2>2, OnlyWorks
  <2> QED BY <1>5, <2>1, <2>2 DEF ConsoleDrops
<1> QED BY <1>2, <1>3, <1>4, <1>5 DEF read_console_poll

\* read_pipe_poll keeps the invariant.
LEMMA PipeStep ==
  ASSUME SelectInv, UNCHANGED job, NEW w \in DOMAIN res.workers, res.workers[w].pc \in Running, read_pipe_poll(w)
  PROVE  SelectInv'
<1> DEFINE d == JobData(res, w)
<1>0. Leaves(d, d) /\ "finish" \in Running /\ "pause" \in Running /\ "job" \in Running
  BY LeavesSame DEF Running
<1>1. \A r, s, f : Leaves(d, [d EXCEPT !.results = r, !.state = s, !.error = f])
  <2> HIDE DEF d
  <2> QED BY <1>0, LeavesFields
<1>2. CASE PipeTurn(w)
  <2>1. \E r, s, f : \E p \in {"pause", "finish"} : res' = Works(res, w, [d EXCEPT !.results = r, !.state = s, !.error = f], p)
    BY <1>2 DEF PipeTurn
  <2> HIDE DEF d
  <2> QED BY <1>0, <1>1, <2>1, OnlyWorks DEF d
<1>3. CASE PipePause(w)
  <2>1. \E p \in {"job", "finish"} : res' = Works(res, w, d, p)
    BY <1>3 DEF PipePause
  <2> HIDE DEF d
  <2> QED BY <1>0, <2>1, OnlyWorks DEF d
<1> QED BY <1>2, <1>3 DEF read_pipe_poll

\* Nothing that the invariant is about changes.
LEMMA IdleStep ==
  ASSUME SelectInv, UNCHANGED job, res'.callers = res.callers, res'.workers = res.workers, res'.pool = res.pool,
         res'.current = res.current, res'.assoc = res.assoc, DOMAIN res' = ResFields
  PROVE  SelectInv'
<1>0. Callers' = Callers /\ WorkerSet' = WorkerSet /\ IsJob' = IsJob
  BY DEF Callers, WorkerSet, IsJob
<1>1. SelectTypes'
  BY <1>0 DEF SelectInv, SelectTypes
<1>2. \A c, k, w : Watches(c, k, w)' <=> Watches(c, k, w)
  BY <1>0 DEF Watches
<1>3. \A c, w : (Holds(c, w)' <=> Holds(c, w)) /\ (Readies(c, w)' <=> Readies(c, w))
  BY <1>0 DEF Holds, Readies
<1>4. \A w : (InPool(w)' <=> InPool(w)) /\ (WorkerAt(w, "exited")' <=> WorkerAt(w, "exited"))
  BY DEF InPool, WorkerAt
<1>5. OnePlace' /\ Placed' /\ PoolOnce'
  BY <1>2, <1>3, <1>4 DEF SelectInv, OnePlace, Placed, PoolOnce
<1>6. WorkersAt'
  BY <1>2, <1>3, <1>4 DEF SelectInv, WorkersAt, WorkerOk, HeldAt, WatchedAt
<1>7. CallPhases'
  BY <1>0 DEF SelectInv, CallPhases
<1>8. Busy' = Busy /\ (Cleaning' <=> Cleaning) /\ (Caller(0, "exit")' <=> Caller(0, "exit"))
  BY <1>2, <1>3 DEF Busy, Cleaning, Caller
<1>9. CountExact' /\ AtEnd'
  <2>1. \A c : (Ended(c)' <=> Ended(c)) /\ (Returned(c)' <=> Returned(c))
    BY DEF Ended, Returned, Interrupted
  <2> QED BY <1>0, <1>8, <2>1 DEF SelectInv, CountExact, AtEnd
<1> QED BY <1>1, <1>5, <1>6, <1>7, <1>9 DEF SelectInv

\* socket_poll keeps the invariant.
LEMMA SocketStep ==
  ASSUME SelectInv, UNCHANGED job, NEW w \in DOMAIN res.workers, res.workers[w].pc \in Running, socket_poll(w)
  PROVE  SelectInv'
<1> DEFINE d == JobData(res, w)
<1>0. Leaves(d, d) /\ "finish" \in Running /\ "sockets" \in Running /\ SelectTypes
  BY LeavesSame DEF Running, SelectInv
<1>1. /\ \A s : Leaves(d, [d EXCEPT !.signaled = s])
      /\ \A r : Leaves(d, [d EXCEPT !.results = r]) /\ Leaves(d, check_error([d EXCEPT !.results = r]))
      /\ Leaves(d, check_error(d))
  <2> HIDE DEF d
  <2> QED BY <1>0, LeavesFields, LeavesError
<1>2. CASE SocketAssociate(w)
  <2> DEFINE good == {i \in DOMAIN d.queries : d.queries[i].fd # Fails(w)}
             last(i) == \A j \in good : d.queries[j].fd = d.queries[i].fd => j <= i
             set == {i \in good : <<d.queries[i].fd, d.queries[i].mode>> \in res.events}
             t == IF good = DOMAIN d.queries THEN [d EXCEPT !.signaled = set] ELSE check_error(d)
             mine(fd) == {i \in good : d.queries[i].fd = fd /\ last(i)}
  <2>0. PICK e \in {t} \cup (IF Overruns(d) THEN {check_error(t)} ELSE {}) :
          res' = [Works(res, w, e, IF e.error THEN "finish" ELSE "sockets") EXCEPT
                    !.assoc = [fd \in DOMAIN @ |-> IF mine(fd) = {} THEN @[fd] ELSE <<w, CHOOSE i \in mine(fd) : TRUE>>],
                    !.nonblock = @ \cup {d.queries[i].fd : i \in good}]
    BY <1>2 DEF SocketAssociate
  <2> DEFINE p == IF e.error THEN "finish" ELSE "sockets"
             T == Works(res, w, e, p)
             f == [fd \in DOMAIN T.assoc |-> IF mine(fd) = {} THEN T.assoc[fd] ELSE <<w, CHOOSE i \in mine(fd) : TRUE>>]
             n == T.nonblock \cup {d.queries[i].fd : i \in good}
  <2>1. res' = [T EXCEPT !.assoc = f, !.nonblock = n]
    BY <2>0
  <2>2. Leaves(d, e)
    <3> HIDE DEF good, set
    <3>1. t = [d EXCEPT !.signaled = set] \/ t = check_error(d)
      OBVIOUS
    <3> HIDE DEF t, d
    <3>2. Leaves(d, t)
      BY <1>1, <3>1
    <3>3. Leaves(d, check_error(t))
      BY <3>2, LeavesError
    <3> QED BY <2>0, <3>2, <3>3
  <2>3. p \in Running
    BY <1>0
  <2>4. DOMAIN T = ResFields /\ T.pool = res.pool /\ T.current = res.current /\ T.assoc = res.assoc
    <3> HIDE DEF p
    <3> QED BY <1>0 DEF Works, SelectTypes, ResFields
  <2>5. DOMAIN f = DOMAIN T.assoc /\ \A fd \in DOMAIN T.assoc : f[fd] = T.assoc[fd] \/ f[fd][1] = w
    <3> HIDE DEF T, mine
    <3>1. DOMAIN f = DOMAIN T.assoc
      OBVIOUS
    <3>2. ASSUME NEW fd \in DOMAIN T.assoc PROVE f[fd] = T.assoc[fd] \/ f[fd][1] = w
      <4> DEFINE i == CHOOSE i \in mine(fd) : TRUE
      <4>1. f[fd] = IF mine(fd) = {} THEN T.assoc[fd] ELSE <<w, i>>
        OBVIOUS
      <4> HIDE DEF i, f
      <4> QED BY <4>1
    <3> QED BY <3>1, <3>2
  <2> HIDE DEF f, n
  <2>6. /\ res'.callers = T.callers /\ res'.workers = T.workers
        /\ res'.pool = res.pool /\ res'.current = res.current /\ DOMAIN res' = ResFields /\ res'.assoc = f
    <3> HIDE DEF T
    <3> QED BY <2>1, <2>4 DEF ResFields
  <2>7. DOMAIN res'.assoc = SocketFds /\ \A fd \in SocketFds : res'.assoc[fd] # <<>> => res'.assoc[fd][1] \in DOMAIN res.workers
    <3> HIDE DEF T
    <3> QED BY <1>0, <2>4, <2>5, <2>6 DEF SelectTypes
  <2> HIDE DEF d, p
  <2> QED BY <2>2, <2>3, <2>6, <2>7, WorksStep DEF d
<1>4. CASE SocketCrash(w)
  <2>1. /\ res'.callers = res.callers /\ res'.workers = res.workers /\ res'.pool = res.pool
        /\ res'.current = res.current /\ res'.assoc = res.assoc /\ DOMAIN res' = ResFields
    BY <1>0, <1>4 DEF SocketCrash, SelectTypes, ResFields
  <2> QED BY <2>1, IdleStep
<1>3. CASE SocketLook(w)
  <2> DEFINE polled == [d EXCEPT !.results = SignaledSockets(d).results]
             watched == {d.queries[i].fd : i \in DOMAIN d.queries}
             t == IF Fails(w) = "restore" THEN check_error(polled) ELSE polled
             T == Works(res, w, t, "finish")
             f == [fd \in DOMAIN T.assoc |-> IF fd \in watched THEN <<>> ELSE T.assoc[fd]]
  <2>1. res' = [T EXCEPT !.assoc = f]
    BY <1>3 DEF SocketLook
  <2>2. Leaves(d, t)
    <3>1. t = polled \/ t = check_error(polled)
      OBVIOUS
    <3>2. Leaves(d, polled) /\ Leaves(d, check_error(polled))
      BY <1>1
    <3> HIDE DEF t, d, polled
    <3> QED BY <3>1, <3>2
  <2>4. DOMAIN T = ResFields /\ T.pool = res.pool /\ T.current = res.current /\ T.assoc = res.assoc
    <3> HIDE DEF t
    <3> QED BY <1>0 DEF Works, SelectTypes, ResFields
  <2>5. DOMAIN f = DOMAIN T.assoc /\ \A fd \in DOMAIN T.assoc : f[fd] = T.assoc[fd] \/ f[fd] = <<>>
    <3> HIDE DEF T, watched
    <3> QED OBVIOUS
  <2> HIDE DEF f
  <2>6. /\ res'.callers = T.callers /\ res'.workers = T.workers
        /\ res'.pool = res.pool /\ res'.current = res.current /\ DOMAIN res' = ResFields /\ res'.assoc = f
    <3> HIDE DEF T
    <3> QED BY <2>1, <2>4 DEF ResFields
  <2>7. DOMAIN res'.assoc = SocketFds /\ \A fd \in SocketFds : res'.assoc[fd] # <<>> => res'.assoc[fd][1] \in DOMAIN res.workers
    <3> HIDE DEF T
    <3> QED BY <1>0, <2>4, <2>5, <2>6 DEF SelectTypes
  <2> HIDE DEF d, t
  <2> QED BY <1>0, <2>2, <2>6, <2>7, WorksStep DEF d
<1> QED BY <1>2, <1>3, <1>4 DEF socket_poll

\* Every step of the thread of a worker keeps the invariant.
LEMMA WorkerSteps ==
  ASSUME SelectInv, UNCHANGED job, NEW w \in DOMAIN res.workers, worker_wait(w)
  PROVE  SelectInv'
<1>1. CASE res.workers[w].pc \in {"job", "dropping", "pause", "sockets"} /\ funcWorker(w)
  <2>1. res.workers[w].pc \in Running
    BY <1>1 DEF Running
  <2>2. read_console_poll(w) \/ read_pipe_poll(w) \/ socket_poll(w)
    BY <1>1 DEF funcWorker
  <2> QED BY <2>1, <2>2, ConsoleStep, PipeStep, SocketStep
<1> QED BY <1>1, WaitStarts, WaitCommand, WaitFinish DEF worker_wait

\* The fields of a caller.
LEMMA CallerTypes ==
  ASSUME SelectInv, NEW c \in Callers
  PROVE  IsCaller(res.callers[c]) /\ Phase(res.callers[c]) /\ SelectTypes
BY DEF SelectInv, SelectTypes, CallPhases

\* While a caller is in a call the program does not end.
LEMMA NotCleaning ==
  ASSUME SelectInv, NEW c \in Callers, res.callers[c].pc \notin CleanPcs,
         ~Ended(c) \/ (Returned(c) /\ res.callers[c].call # SelectCalls)
  PROVE  ~Cleaning
BY DEF SelectInv, AtEnd, Cleaning

\* The state of a step that changes the record of caller c.
LEMMA SetCallerTypes ==
  ASSUME SelectInv, UNCHANGED job, NEW c \in Callers, NEW y, IsCaller(y), res'.callers = [res.callers EXCEPT ![c] = y],
         res'.workers \in Seq(WorkerSet), DOMAIN res.workers \subseteq DOMAIN res'.workers,
         res'.pool \in Seq(Nat), Len(res'.pool) <= THREAD_WORKERS_MAX, res'.current \in Int,
         res'.assoc = res.assoc, DOMAIN res' = ResFields
  PROVE  SelectTypes' /\ res'.callers[c] = y /\ \A b \in Callers : b # c => res'.callers[b] = res.callers[b]
<1>0. SelectTypes
  BY DEF SelectInv
<1>1. Callers' = Callers /\ WorkerSet' = WorkerSet /\ IsJob'
  BY <1>0 DEF Callers, WorkerSet, IsJob, SelectTypes
<1>2. DOMAIN res'.callers = Callers /\ res'.callers[c] = y /\ \A b \in Callers : b # c => res'.callers[b] = res.callers[b]
  BY <1>0 DEF SelectTypes
<1>3. \A b \in Callers : IsCaller(res'.callers[b])
  BY <1>0, <1>2 DEF SelectTypes
<1>4. SelectTypes'
  BY <1>0, <1>1, <1>2, <1>3 DEF SelectTypes
<1> QED BY <1>2, <1>4

\* A caller goes on: it watches what it watched, and none of that is freed.
LEMMA GoesOn ==
  ASSUME SelectInv, UNCHANGED job, NEW c \in Callers, NEW y, IsCaller(y), res'.callers = [res.callers EXCEPT ![c] = y],
         res'.workers = res.workers, res'.pool = res.pool, res'.current = res.current, res'.assoc = res.assoc, DOMAIN res' = ResFields,
         res.callers[c].pc \notin HoldPcs, y.pc \notin HoldPcs \cup CleanPcs,
         \A k, w : (k \in DOMAIN y.data /\ y.data[k].worker = w /\ w # 0)
                     <=> (k \in DOMAIN res.callers[c].data /\ res.callers[c].data[k].worker = w /\ w # 0),
         \A k \in DOMAIN y.data : y.data[k].worker # 0 => ~y.data[k].freed,
         Phase(y), ~Cleaning
  PROVE  SelectInv'
<1>0. SelectTypes /\ Callers' = Callers
  BY DEF SelectInv, Callers
<1>1. SelectTypes' /\ res'.callers[c] = y /\ \A b \in Callers : b # c => res'.callers[b] = res.callers[b]
  <2>1. /\ res'.workers \in Seq(WorkerSet) /\ DOMAIN res.workers \subseteq DOMAIN res'.workers
        /\ res'.pool \in Seq(Nat) /\ Len(res'.pool) <= THREAD_WORKERS_MAX /\ res'.current \in Int
    BY <1>0 DEF SelectTypes
  <2> QED BY <2>1, SetCallerTypes
<1>2. \A k, w : Watches(c, k, w)' <=> Watches(c, k, w)
  BY <1>0, <1>1 DEF Watches
<1>3. \A k, w : Watches(c, k, w) => ~res'.callers[c].data[k].freed
  <2>1. \A k, w : Watches(c, k, w) => k \in DOMAIN y.data /\ y.data[k].worker # 0
    BY DEF Watches
  <2>2. \A k, w : Watches(c, k, w) => ~y.data[k].freed
    BY <2>1
  <2> QED BY <1>1, <2>2
<1>4. \A w \in DOMAIN res.workers : SameWorker(res.workers[w], res'.workers[w])
  BY DEF SameWorker
<1> QED BY <1>1, <1>2, <1>3, <1>4, CallerStep

\* Data that a worker has is not freed.
LEMMA WatchedNotFreed ==
  ASSUME SelectInv, NEW c \in Callers, NEW k \in DOMAIN res.callers[c].data, res.callers[c].data[k].worker # 0
  PROVE  ~res.callers[c].data[k].freed
<1> DEFINE w == res.callers[c].data[k].worker
<1>1. Watches(c, k, w)
  BY DEF Watches
<1>2. w \in DOMAIN res.workers
  BY <1>1 DEF SelectInv, Placed
<1> HIDE DEF w
<1> QED BY <1>1, <1>2 DEF SelectInv, WorkersAt, WorkerOk, WatchedAt

\* The data stays as it is.
LEMMA SameData ==
  ASSUME SelectInv, UNCHANGED job, NEW c \in Callers, NEW y, DOMAIN y = CallerFields, y.data = res.callers[c].data,
         y.using = res.callers[c].using, y.k \in Nat \ {0}, res' = [res EXCEPT !.callers = [res.callers EXCEPT ![c] = y]],
         res.callers[c].pc \notin HoldPcs \cup CleanPcs, ~Ended(c), y.pc \notin HoldPcs \cup CleanPcs, Phase(y)
  PROVE  SelectInv'
<1>0. SelectTypes /\ IsCaller(res.callers[c])
  BY CallerTypes
<1>1. IsCaller(y)
  BY <1>0 DEF IsCaller
<1>2. /\ res'.callers = [res.callers EXCEPT ![c] = y] /\ res'.workers = res.workers /\ res'.pool = res.pool
      /\ res'.current = res.current /\ res'.assoc = res.assoc /\ DOMAIN res' = ResFields
  BY <1>0 DEF SelectTypes, ResFields
<1>3. ~Cleaning
  BY NotCleaning
<1>4. \A k \in DOMAIN y.data : y.data[k].worker # 0 => ~y.data[k].freed
  BY WatchedNotFreed
<1> QED BY <1>1, <1>2, <1>3, <1>4, GoesOn

QuietPcs == {"build", "sleep", "stop", "wait", "join", "broken"}
\* The points of a call that ask nothing of the data.
LEMMA QuietPhase ==
  ASSUME NEW y, y.pc \in QuietPcs
  PROVE  Phase(y) /\ y.pc \notin HoldPcs \cup CleanPcs
BY DEF Phase, QuietPcs, CleanPcs, HoldPcs

\* Sleep keeps the invariant.
LEMMA SleepStep ==
  ASSUME SelectInv, UNCHANGED job, NEW c \in Callers, Sleep(c)
  PROVE  SelectInv'
<1> DEFINE x == res.callers[c]
           y == [x EXCEPT !.pc = "build", !.timedout = TRUE]
<1>1. IsCaller(x) /\ x.pc = "sleep" /\ x.pc \notin HoldPcs \cup CleanPcs /\ ~Ended(c)
  BY CallerTypes DEF Sleep, Caller, Ended, Returned, Interrupted, HoldPcs, CleanPcs
<1>2. res' = [res EXCEPT !.callers = [res.callers EXCEPT ![c] = y]]
  BY DEF Sleep
<1>3. DOMAIN y = CallerFields /\ y.pc = "build" /\ y.data = x.data /\ y.using = x.using /\ y.k = x.k /\ y.k \in Nat \ {0}
  <2> HIDE DEF x
  <2> QED BY <1>1 DEF IsCaller, CallerFields
<1> HIDE DEF x, y
<1> QED BY <1>1, <1>2, <1>3, QuietPhase, SameData DEF QuietPcs, x

\* WaitOne keeps the invariant.
LEMMA WaitOneStep ==
  ASSUME SelectInv, UNCHANGED job, NEW c \in Callers, WaitOne(c)
  PROVE  SelectInv'
<1> DEFINE x == res.callers[c]
<1>1. IsCaller(x) /\ x.pc = "wait" /\ x.pc \notin HoldPcs \cup CleanPcs /\ ~Ended(c)
  BY CallerTypes DEF WaitOne, Caller, Ended, Returned, Interrupted, HoldPcs, CleanPcs
<1>2. \/ res' = [res EXCEPT !.callers = [res.callers EXCEPT ![c] = [x EXCEPT !.pc = "stop", !.err = TRUE]]]
      \/ res' = [res EXCEPT !.callers = [res.callers EXCEPT ![c] = [x EXCEPT !.pc = "stop"]]]
      \/ res' = [res EXCEPT !.callers = [res.callers EXCEPT ![c] = [x EXCEPT !.pc = "stop", !.timedout = TRUE]]]
  BY DEF WaitOne
<1>3. ASSUME NEW y, res' = [res EXCEPT !.callers = [res.callers EXCEPT ![c] = y]],
             y = [x EXCEPT !.pc = "stop", !.err = TRUE] \/ y = [x EXCEPT !.pc = "stop"] \/ y = [x EXCEPT !.pc = "stop", !.timedout = TRUE]
      PROVE  SelectInv'
  <2> HIDE DEF x
  <2>1. DOMAIN y = CallerFields /\ y.pc = "stop" /\ y.data = x.data /\ y.using = x.using /\ y.k = x.k /\ y.k \in Nat \ {0}
    BY <1>1, <1>3 DEF IsCaller, CallerFields
  <2> QED BY <1>1, <1>3, <2>1, QuietPhase, SameData DEF QuietPcs, x
<1> HIDE DEF x
<1> QED BY <1>2, <1>3

\* WaitAll keeps the invariant.
LEMMA WaitAllStep ==
  ASSUME SelectInv, UNCHANGED job, NEW c \in Callers, WaitAll(c)
  PROVE  SelectInv'
<1> DEFINE x == res.callers[c]
           e == x.err \/ TooMany(c)
           y == [x EXCEPT !.pc = "build", !.err = e]
<1>1. IsCaller(x) /\ x.pc = "join" /\ x.pc \notin HoldPcs \cup CleanPcs /\ ~Ended(c)
  BY CallerTypes DEF WaitAll, Caller, Ended, Returned, Interrupted, HoldPcs, CleanPcs
<1>2. res' = [res EXCEPT !.callers = [res.callers EXCEPT ![c] = y]]
  BY DEF WaitAll
<1>3. DOMAIN y = CallerFields /\ y.pc = "build" /\ y.data = x.data /\ y.using = x.using /\ y.k = x.k /\ y.k \in Nat \ {0}
  <2> HIDE DEF x, e
  <2> QED BY <1>1 DEF IsCaller, CallerFields
<1> HIDE DEF x, y
<1> QED BY <1>1, <1>2, <1>3, QuietPhase, SameData DEF QuietPcs, x

\* CallRaises: the data and its workers stay with the call.
LEMMA BrokenStep ==
  ASSUME SelectInv, UNCHANGED job, NEW c \in Callers, CallRaises(c)
  PROVE  SelectInv'
<1> DEFINE x == res.callers[c]
           y == [x EXCEPT !.pc = "broken"]
<1>1. IsCaller(x) /\ x.pc \in {"submit", "sleep", "join", "free"} /\ x.pc \notin HoldPcs \cup CleanPcs /\ ~Ended(c)
  BY CallerTypes DEF CallRaises, Caller, Ended, Returned, Interrupted, HoldPcs, CleanPcs
<1>2. res' = [res EXCEPT !.callers = [res.callers EXCEPT ![c] = y]]
  BY DEF CallRaises
<1>3. DOMAIN y = CallerFields /\ y.pc = "broken" /\ y.data = x.data /\ y.using = x.using /\ y.k = x.k /\ y.k \in Nat \ {0}
  <2> HIDE DEF x
  <2> QED BY <1>1 DEF IsCaller, CallerFields
<1> HIDE DEF x, y
<1> QED BY <1>1, <1>2, <1>3, QuietPhase, SameData DEF QuietPcs, x

\* Build keeps the invariant.
LEMMA BuildStep ==
  ASSUME SelectInv, UNCHANGED job, NEW c \in Callers, Build(c)
  PROVE  SelectInv'
<1> DEFINE x == res.callers[c]
<1>1. IsCaller(x) /\ x.pc = "build" /\ x.pc \notin HoldPcs \cup CleanPcs /\ ~Ended(c)
  BY CallerTypes DEF Build, Caller, Ended, Returned, Interrupted, HoldPcs, CleanPcs
<1>2. PICK o, e : res' = [res EXCEPT !.callers = [res.callers EXCEPT ![c] = [x EXCEPT !.pc = "free", !.k = 1, !.out = o, !.err = e]]]
  BY DEF Build
<1> DEFINE y == [x EXCEPT !.pc = "free", !.k = 1, !.out = o, !.err = e]
<1>3. DOMAIN y = CallerFields /\ y.pc = "free" /\ y.data = x.data /\ y.using = x.using /\ y.k = 1
  <2> HIDE DEF x
  <2> QED BY <1>1 DEF IsCaller, CallerFields
<1> HIDE DEF y
<1>4. Phase(y)
  <2>1. \A j \in DOMAIN y.data : ~(j < 1)
    BY <1>1, <1>3 DEF IsCaller, IsDataList
  <2> QED BY <1>3, <2>1 DEF Phase, CleanPcs
<1>5. y.pc \notin HoldPcs \cup CleanPcs
  BY <1>3 DEF HoldPcs, CleanPcs
<1>6. res' = [res EXCEPT !.callers = [res.callers EXCEPT ![c] = y]]
  BY <1>2 DEF y
<1> HIDE DEF x
<1> QED BY <1>1, <1>3, <1>4, <1>5, <1>6, SameData DEF x

\* Return: by then select_data_free has gone through the whole list.
LEMMA ReturnStep ==
  ASSUME SelectInv, UNCHANGED job, NEW c \in Callers, Return(c)
  PROVE  SelectInv'
<1> DEFINE x == res.callers[c]
           p == IF x.err THEN "raised" ELSE "answered"
           y == [x EXCEPT !.pc = p]
<1>1. /\ IsCaller(x) /\ Phase(x) /\ x.pc = "free" /\ x.k \notin DOMAIN x.data
      /\ x.pc \notin HoldPcs \cup CleanPcs /\ ~Ended(c)
  BY CallerTypes DEF Return, Caller, Ended, Returned, Interrupted, HoldPcs, CleanPcs
<1>2. res' = [res EXCEPT !.callers = [res.callers EXCEPT ![c] = y]]
  BY DEF Return
<1>3. p \in {"raised", "answered"}
  OBVIOUS
<1> HIDE DEF p
<1>4. DOMAIN y = CallerFields /\ y.pc = p /\ y.data = x.data /\ y.using = x.using /\ y.k = x.k /\ y.k \in Nat \ {0}
  <2> HIDE DEF x
  <2> QED BY <1>1 DEF IsCaller, CallerFields
<1> HIDE DEF x, y
<1>5. NoneWatched(y)
  <2>1. \A j \in DOMAIN x.data : j < x.k
    BY <1>1 DEF IsCaller, IsDataList
  <2> QED BY <1>1, <1>4, <2>1 DEF Phase, NoneWatched
<1>6. Phase(y) /\ y.pc \notin HoldPcs \cup CleanPcs
  BY <1>3, <1>4, <1>5 DEF Phase, HoldPcs, CleanPcs
<1> QED BY <1>1, <1>2, <1>4, <1>6, SameData DEF x

\* The three lists of a query.
LEMMA QueryTypes ==
  ASSUME IsJob, NEW c \in DOMAIN job.queries
  PROVE  {job.queries[c].read, job.queries[c].write, job.queries[c].except} \subseteq Seq(DOMAIN DescrKind)
BY SelectAssumption DEF IsJob, Callers

\* Begin keeps the invariant.
LEMMA BeginStep ==
  ASSUME SelectInv, UNCHANGED job, NEW c \in DOMAIN job.queries, Begin(c)
  PROVE  SelectInv'
<1>c. c \in Callers
  BY DEF Callers
<1> DEFINE x == res.callers[c]
           q == job.queries[c]
           bad == \E fd \in AllFds(q) : DescrKind[fd] = "unknown"
<1>1. IsCaller(x) /\ Phase(x) /\ x.pc = "begin" /\ x.pc \notin HoldPcs \cup CleanPcs /\ ~Ended(c) /\ SelectTypes
  BY <1>c, CallerTypes DEF Begin, Caller, Ended, Returned, Interrupted, HoldPcs, CleanPcs
<1>2. NoneWatched(x)
  BY <1>1 DEF Phase
<1>3. CASE bad
  <2> DEFINE y == [x EXCEPT !.pc = "raised"]
  <2>1. res' = [res EXCEPT !.callers = [res.callers EXCEPT ![c] = y]]
    BY <1>3 DEF Begin
  <2>2. DOMAIN y = CallerFields /\ y.pc = "raised" /\ y.data = x.data /\ y.using = x.using /\ y.k = x.k /\ y.k \in Nat \ {0}
    <3> HIDE DEF x
    <3> QED BY <1>1 DEF IsCaller, CallerFields
  <2> HIDE DEF x, y, bad
  <2>3. Phase(y) /\ y.pc \notin HoldPcs \cup CleanPcs
    BY <1>2, <2>2 DEF Phase, NoneWatched, HoldPcs, CleanPcs
  <2> QED BY <1>1, <2>1, <2>2, <2>3, <1>c, SameData DEF x
<1>4. CASE ~bad
  <2> DEFINE data == Dispatched(q)
             y == [x EXCEPT !.pc = "submit", !.data = data, !.k = 1]
  <2>1. res' = [res EXCEPT !.callers = [res.callers EXCEPT ![c] = y]]
    BY <1>4 DEF Begin
  <2>2. data \in Seq(FreshData)
    BY <1>1, QueryTypes, DispatchedFresh DEF SelectTypes
  <2> HIDE DEF data, bad
  <2>3. DOMAIN y = CallerFields /\ y.pc = "submit" /\ y.data = data /\ y.using = x.using /\ y.k = 1
    <3> HIDE DEF x
    <3> QED BY <1>1 DEF IsCaller, CallerFields
  <2> HIDE DEF y
  <2>4. \A i \in DOMAIN data : DOMAIN data[i] = DataFields /\ data[i].worker = 0
    <3> SUFFICES ASSUME NEW i \in DOMAIN data PROVE DOMAIN data[i] = DataFields /\ data[i].worker = 0
      OBVIOUS
    <3>1. data[i] \in FreshData
      BY <2>2
    <3> QED BY <3>1 DEF FreshData, DataFields
  <2>5. \A i \in DOMAIN data : ~data[i].freed
    <3> SUFFICES ASSUME NEW i \in DOMAIN data PROVE ~data[i].freed
      OBVIOUS
    <3>1. data[i] \in FreshData
      BY <2>2
    <3> QED BY <3>1 DEF FreshData
  <2>6. Len(data) \in Nat /\ DOMAIN data = 1 .. Len(data)
    BY <2>2
  <2>7. IsDataList(data)
    <3>1. \E n \in Nat : DOMAIN data = 1 .. n
      BY <2>6
    <3>2. \A i \in DOMAIN data : IsData(data[i])
      BY <2>4 DEF IsData
    <3> QED BY <3>1, <3>2 DEF IsDataList
  <2>8. IsCaller(y)
    BY <1>1, <2>3, <2>7 DEF IsCaller
  <2>9. Phase(y) /\ y.pc \notin HoldPcs \cup CleanPcs
    BY <2>3, <2>4, <2>5 DEF Phase, HoldPcs, CleanPcs
  <2>10. \A k, w : (k \in DOMAIN y.data /\ y.data[k].worker = w /\ w # 0) <=> (k \in DOMAIN x.data /\ x.data[k].worker = w /\ w # 0)
    BY <1>2, <2>3, <2>4 DEF NoneWatched
  <2>11. \A k \in DOMAIN y.data : y.data[k].worker # 0 => ~y.data[k].freed
    BY <2>3, <2>4
  <2>12. /\ res'.callers = [res.callers EXCEPT ![c] = y] /\ res'.workers = res.workers /\ res'.pool = res.pool
         /\ res'.current = res.current /\ res'.assoc = res.assoc /\ DOMAIN res' = ResFields
    BY <1>1, <2>1 DEF SelectTypes, ResFields
  <2>13. ~Cleaning
    BY <1>1, <1>c, NotCleaning
  <2> HIDE DEF q
  <2> QED BY <1>1, <2>8, <2>9, <2>10, <2>11, <2>12, <2>13, <1>c, GoesOn
<1> QED BY <1>3, <1>4

\* Submit at the end of the list.
LEMMA SubmitDone ==
  ASSUME SelectInv, UNCHANGED job, NEW c \in Callers, Submit(c), res.callers[c].k \notin DOMAIN res.callers[c].data
  PROVE  SelectInv'
<1> DEFINE x == res.callers[c]
           p == CASE Watched(c) = {} /\ HasStatic(x.data) -> "build" [] Watched(c) = {} /\ ~HasStatic(x.data) -> "sleep"
                  [] Watched(c) # {} /\ HasStatic(x.data) -> "stop" [] OTHER -> "wait"
           y == [x EXCEPT !.pc = p]
<1>1. IsCaller(x) /\ x.pc = "submit" /\ x.pc \notin HoldPcs \cup CleanPcs /\ ~Ended(c)
  BY CallerTypes DEF Submit, Caller, Ended, Returned, Interrupted, HoldPcs, CleanPcs
<1>2. res' = [res EXCEPT !.callers = [res.callers EXCEPT ![c] = y]]
  BY DEF Submit
<1>3. p \in QuietPcs
  BY DEF QuietPcs
<1> HIDE DEF p
<1>4. DOMAIN y = CallerFields /\ y.pc = p /\ y.data = x.data /\ y.using = x.using /\ y.k = x.k /\ y.k \in Nat \ {0}
  <2> HIDE DEF x
  <2> QED BY <1>1 DEF IsCaller, CallerFields
<1> HIDE DEF x, y
<1> QED BY <1>1, <1>2, <1>3, <1>4, QuietPhase, SameData DEF x

\* Submit passes static data.
LEMMA SubmitStatic ==
  ASSUME SelectInv, UNCHANGED job, NEW c \in Callers, Submit(c), res.callers[c].k \in DOMAIN res.callers[c].data,
         res.callers[c].data[res.callers[c].k].type = "static"
  PROVE  SelectInv'
<1> DEFINE x == res.callers[c]
           y == [x EXCEPT !.k = x.k + 1]
<1>1. IsCaller(x) /\ Phase(x) /\ x.pc = "submit" /\ x.pc \notin HoldPcs \cup CleanPcs /\ ~Ended(c)
  BY CallerTypes DEF Submit, Caller, Ended, Returned, Interrupted, HoldPcs, CleanPcs
<1>2. res' = [res EXCEPT !.callers = [res.callers EXCEPT ![c] = y]]
  BY DEF Submit
<1>3. DOMAIN y = CallerFields /\ y.pc = x.pc /\ y.data = x.data /\ y.using = x.using /\ y.k = x.k + 1 /\ y.k \in Nat \ {0}
  <2> HIDE DEF x
  <2> QED BY <1>1 DEF IsCaller, CallerFields
<1> HIDE DEF x, y
<1>4. \A j \in DOMAIN x.data : j \in Nat /\ (j >= x.k + 1 => j >= x.k)
  BY <1>1 DEF IsCaller, IsDataList
<1>5. Phase(y) /\ y.pc \notin HoldPcs \cup CleanPcs
  BY <1>1, <1>3, <1>4 DEF Phase, CleanPcs
<1> QED BY <1>1, <1>2, <1>3, <1>5, SameData DEF x

\* select_data_free of data without a worker.
LEMMA FreeStatic ==
  ASSUME SelectInv, UNCHANGED job, NEW c \in Callers, select_data_free(c), res.callers[c].data[res.callers[c].k].worker = 0
  PROVE  SelectInv'
<1> DEFINE x == res.callers[c]
           k == x.k
           d == [x.data[k] EXCEPT !.freed = TRUE]
           data == [x.data EXCEPT ![k] = d]
           y == [x EXCEPT !.data = data, !.k = k + 1]
<1>1. /\ IsCaller(x) /\ Phase(x) /\ x.pc = "free" /\ x.pc \notin HoldPcs \cup CleanPcs /\ ~Ended(c) /\ SelectTypes
      /\ k \in DOMAIN x.data /\ x.data[k].worker = 0
  BY CallerTypes DEF select_data_free, Caller, Ended, Returned, Interrupted, HoldPcs, CleanPcs
<1>2. res' = [res EXCEPT !.callers = [res.callers EXCEPT ![c] = y]]
  BY DEF select_data_free
<1>3. DOMAIN d = DataFields /\ d.worker = 0
  <2>1. DOMAIN x.data[k] = DataFields
    BY <1>1 DEF IsCaller, IsDataList, IsData
  <2> QED BY <1>1, <2>1 DEF DataFields
<1> HIDE DEF d
<1>4. /\ DOMAIN data = DOMAIN x.data /\ data[k] = d /\ \A i \in DOMAIN x.data : i # k => data[i] = x.data[i]
  BY <1>1
<1> HIDE DEF data
<1>5. IsDataList(data)
  BY <1>1, <1>3, <1>4 DEF IsCaller, IsDataList, IsData
<1>6. DOMAIN y = CallerFields /\ y.pc = "free" /\ y.data = data /\ y.using = x.using /\ y.k = k + 1
  <2> HIDE DEF x
  <2> QED BY <1>1 DEF IsCaller, CallerFields
<1> HIDE DEF y
<1>7. IsCaller(y) /\ k \in Nat \ {0} /\ \A j \in DOMAIN x.data : j \in Nat
  BY <1>1, <1>5, <1>6 DEF IsCaller, IsDataList
<1>8. \A j \in DOMAIN x.data : j < k => x.data[j].worker = 0
  BY <1>1 DEF Phase
<1>9. \A j \in DOMAIN data : data[j].worker = x.data[j].worker
  BY <1>1, <1>3, <1>4
<1>10. Phase(y) /\ y.pc \notin HoldPcs \cup CleanPcs
  <2>1. \A j \in DOMAIN data : j < k + 1 => data[j].worker = 0
    <3> HIDE DEF x, k
    <3>1. ASSUME NEW j \in DOMAIN data, j < k + 1 PROVE data[j].worker = 0
      <4>1. j \in DOMAIN x.data /\ (j < k \/ j = k)
        BY <1>4, <1>7, <3>1
      <4> QED BY <1>1, <1>8, <1>9, <3>1, <4>1
    <3> QED BY <3>1
  <2> QED BY <1>6, <2>1 DEF Phase, HoldPcs, CleanPcs
<1>11. \A i, w : (i \in DOMAIN y.data /\ y.data[i].worker = w /\ w # 0) <=> (i \in DOMAIN x.data /\ x.data[i].worker = w /\ w # 0)
  BY <1>4, <1>6, <1>9
<1>12. \A i \in DOMAIN y.data : y.data[i].worker # 0 => ~y.data[i].freed
  <2> SUFFICES ASSUME NEW i \in DOMAIN data, data[i].worker # 0 PROVE ~data[i].freed
    BY <1>6
  <2>1. i \in DOMAIN x.data /\ i # k /\ data[i] = x.data[i]
    BY <1>3, <1>4
  <2>2. ~x.data[i].freed
    BY <2>1, WatchedNotFreed
  <2> QED BY <2>1, <2>2
<1>13. /\ res'.callers = [res.callers EXCEPT ![c] = y] /\ res'.workers = res.workers /\ res'.pool = res.pool
       /\ res'.current = res.current /\ res'.assoc = res.assoc /\ DOMAIN res' = ResFields
  BY <1>1, <1>2 DEF SelectTypes, ResFields
<1>14. ~Cleaning
  BY <1>1, NotCleaning
<1> QED BY <1>1, <1>7, <1>10, <1>11, <1>12, <1>13, <1>14, GoesOn

\* worker_job_stop keeps the invariant.
LEMMA StopStep ==
  ASSUME SelectInv, UNCHANGED job, NEW c \in Callers, worker_job_stop(c)
  PROVE  SelectInv'
<1> DEFINE x == res.callers[c]
           y == [x EXCEPT !.pc = "join"]
           f == [w \in DOMAIN res.workers |-> IF w \in Watched(c) THEN [res.workers[w] EXCEPT !.stop = TRUE] ELSE res.workers[w]]
<1>1. IsCaller(x) /\ x.pc = "stop" /\ x.pc \notin HoldPcs \cup CleanPcs /\ ~Ended(c) /\ SelectTypes
  BY CallerTypes DEF worker_job_stop, Caller, Ended, Returned, Interrupted, HoldPcs, CleanPcs
<1>2. res' = [res EXCEPT !.callers = [res.callers EXCEPT ![c] = y], !.workers = f]
  BY DEF worker_job_stop
<1>3. DOMAIN y = CallerFields /\ y.pc = "join" /\ y.data = x.data /\ y.using = x.using /\ y.k = x.k /\ IsCaller(y)
  <2> HIDE DEF x
  <2>1. DOMAIN y = CallerFields /\ y.pc = "join" /\ y.data = x.data /\ y.using = x.using /\ y.k = x.k
    BY <1>1 DEF IsCaller, CallerFields
  <2> QED BY <1>1, <2>1 DEF IsCaller
<1>4. \A w \in DOMAIN res.workers : f[w] \in WorkerSet /\ SameWorker(res.workers[w], f[w])
  <2> SUFFICES ASSUME NEW w \in DOMAIN res.workers PROVE f[w] \in WorkerSet /\ SameWorker(res.workers[w], f[w])
    OBVIOUS
  <2> DEFINE z == res.workers[w]
             u == [z EXCEPT !.stop = TRUE]
  <2>1. z \in WorkerSet
    BY WorkerTypes
  <2>2. f[w] = u \/ f[w] = z
    OBVIOUS
  <2> HIDE DEF z, f
  <2>3. u \in WorkerSet /\ u.pc = z.pc /\ u.cmd = z.cmd /\ u.data = z.data
    BY <2>1 DEF WorkerSet
  <2>4. u.ready = z.ready /\ u.command = z.command /\ u.done = z.done
    BY <2>1 DEF WorkerSet
  <2> HIDE DEF u
  <2>5. SameWorker(z, f[w])
    BY <2>2, <2>3, <2>4 DEF SameWorker
  <2> QED BY <2>1, <2>2, <2>3, <2>5 DEF z
<1>5. DOMAIN f = DOMAIN res.workers /\ f \in Seq(WorkerSet)
  <2>1. Len(res.workers) \in Nat /\ DOMAIN res.workers = 1 .. Len(res.workers)
    BY <1>1 DEF SelectTypes
  <2>2. f \in [1 .. Len(res.workers) -> WorkerSet]
    BY <1>4, <2>1
  <2> QED BY <2>1, <2>2
<1> HIDE DEF y, f
<1>6. /\ res'.callers = [res.callers EXCEPT ![c] = y] /\ res'.workers = f /\ res'.pool = res.pool
      /\ res'.current = res.current /\ res'.assoc = res.assoc /\ DOMAIN res' = ResFields
  BY <1>1, <1>2 DEF SelectTypes, ResFields
<1>7. SelectTypes' /\ res'.callers[c] = y /\ \A b \in Callers : b # c => res'.callers[b] = res.callers[b]
  <2>1. res.pool \in Seq(Nat) /\ Len(res.pool) <= THREAD_WORKERS_MAX /\ res.current \in Int
    BY <1>1 DEF SelectTypes
  <2> QED BY <1>3, <1>5, <1>6, <2>1, SetCallerTypes
<1>8. Phase(y) /\ y.pc \notin HoldPcs \cup CleanPcs
  BY <1>3, QuietPhase DEF QuietPcs
<1>9. \A k, w : Watches(c, k, w)' <=> Watches(c, k, w)
  BY <1>3, <1>7 DEF Watches, Callers
<1>10. \A k, w : Watches(c, k, w) => ~res'.callers[c].data[k].freed
  BY <1>3, <1>7, WatchedNotFreed DEF Watches
<1>11. ~Cleaning
  BY <1>1, NotCleaning
<1> QED BY <1>1, <1>4, <1>5, <1>6, <1>7, <1>8, <1>9, <1>10, <1>11, CallerStep

\* Again keeps the invariant.
LEMMA AgainStep ==
  ASSUME SelectInv, UNCHANGED job, NEW c \in Callers, Again(c)
  PROVE  SelectInv'
<1> DEFINE x == res.callers[c]
           y == [x EXCEPT !.pc = "begin", !.call = x.call + 1, !.data = <<>>, !.err = FALSE, !.timedout = FALSE]
<1>1. IsCaller(x) /\ Phase(x) /\ x.pc \in {"answered", "raised"} /\ x.pc \notin HoldPcs \cup CleanPcs /\ x.call < SelectCalls /\ SelectTypes
  BY CallerTypes DEF Again, Returned, HoldPcs, CleanPcs
<1>2. \E i, e, s : res' = [res EXCEPT !.callers = [res.callers EXCEPT ![c] = y], !.input = i, !.events = e, !.console = s]
  BY DEF Again
<1>3. DOMAIN y = CallerFields /\ y.pc = "begin" /\ y.data = <<>> /\ y.using = x.using /\ y.k = x.k
  <2> HIDE DEF x
  <2> QED BY <1>1 DEF IsCaller, CallerFields
<1> HIDE DEF y
<1>4. IsCaller(y)
  <2>1. DOMAIN <<>> = 1 .. 0
    OBVIOUS
  <2>2. IsDataList(<<>>)
    BY <2>1 DEF IsDataList
  <2> QED BY <1>1, <1>3, <2>2 DEF IsCaller
<1>5. /\ res'.callers = [res.callers EXCEPT ![c] = y] /\ res'.workers = res.workers /\ res'.pool = res.pool
      /\ res'.current = res.current /\ res'.assoc = res.assoc /\ DOMAIN res' = ResFields
  BY <1>1, <1>2 DEF SelectTypes, ResFields
<1>6. DOMAIN y.data = {}
  BY <1>3
<1>7. Phase(y) /\ y.pc \notin HoldPcs \cup CleanPcs
  BY <1>3, <1>6 DEF Phase, NoneWatched, HoldPcs, CleanPcs
<1>8. NoneWatched(x)
  BY <1>1 DEF Phase
<1>9. ~Cleaning
  <2>1. x.call # SelectCalls /\ Returned(c)
    BY <1>1, SelectAssumption DEF Returned
  <2> QED BY <1>1, <2>1, NotCleaning
<1>10. \A i, w : (i \in DOMAIN y.data /\ y.data[i].worker = w /\ w # 0) <=> (i \in DOMAIN x.data /\ x.data[i].worker = w /\ w # 0)
  BY <1>6, <1>8 DEF NoneWatched
<1>11. \A i \in DOMAIN y.data : y.data[i].worker # 0 => ~y.data[i].freed
  BY <1>6
<1> QED BY <1>1, <1>4, <1>5, <1>7, <1>9, <1>10, <1>11, GoesOn

\* Input that arrives keeps the invariant.
LEMMA ArrivesStep ==
  ASSUME SelectInv, UNCHANGED job, NEW c \in DOMAIN job.queries, Arrives(c)
  PROVE  SelectInv'
<1>c. c \in Callers
  BY DEF Callers
<1> DEFINE q == job.queries[c]
<1>0. SelectTypes
  BY DEF SelectInv
<1>1. CASE \E i : res' = [res EXCEPT !.input = i]
  <2>1. /\ res'.callers = res.callers /\ res'.workers = res.workers /\ res'.pool = res.pool
        /\ res'.current = res.current /\ res'.assoc = res.assoc /\ DOMAIN res' = ResFields
    BY <1>0, <1>1 DEF SelectTypes, ResFields
  <2> QED BY <2>1, IdleStep
<1>2. CASE \E s, o : res' = [res EXCEPT !.console = s, !.others = o]
  <2>1. /\ res'.callers = res.callers /\ res'.workers = res.workers /\ res'.pool = res.pool
        /\ res'.current = res.current /\ res'.assoc = res.assoc /\ DOMAIN res' = ResFields
    BY <1>0, <1>2 DEF SelectTypes, ResFields
  <2> QED BY <2>1, IdleStep
<1>3. CASE \E s : res' = [res EXCEPT !.console = s]
  <2>1. /\ res'.callers = res.callers /\ res'.workers = res.workers /\ res'.pool = res.pool
        /\ res'.current = res.current /\ res'.assoc = res.assoc /\ DOMAIN res' = ResFields
    BY <1>0, <1>3 DEF SelectTypes, ResFields
  <2> QED BY <2>1, IdleStep
<1>4. ASSUME NEW mode \in {"read", "write", "except"}, NEW fd \in {q[mode][i] : i \in DOMAIN q[mode]},
             DescrKind[fd] \in {"socket", "unbound"}, NEW e, res' = [SocketEvent(res, fd, mode) EXCEPT !.events = e]
      PROVE  SelectInv'
  <2>1. q[mode] \in Seq(DOMAIN DescrKind)
    <3>1. q.read \in Seq(DOMAIN DescrKind) /\ q.write \in Seq(DOMAIN DescrKind) /\ q.except \in Seq(DOMAIN DescrKind)
      BY <1>0, QueryTypes DEF SelectTypes
    <3> HIDE DEF q
    <3> QED BY <3>1
  <2>2. fd \in SocketFds
    <3> HIDE DEF q
    <3>1. fd \in DOMAIN DescrKind
      BY <2>1
    <3> QED BY <1>4, <3>1 DEF SocketFds
  <2> DEFINE w == res.assoc[fd][1]
             i == res.assoc[fd][2]
             d == [JobData(res, w) EXCEPT !.signaled = @ \cup {i}]
             T == Works(res, w, d, "sockets")
  <2>3. CASE SocketEvent(res, fd, mode) = res
    <3>1. /\ res'.callers = res.callers /\ res'.workers = res.workers /\ res'.pool = res.pool
          /\ res'.current = res.current /\ res'.assoc = res.assoc /\ DOMAIN res' = ResFields
      BY <1>0, <1>4, <2>3 DEF SelectTypes, ResFields
    <3> QED BY <3>1, IdleStep
  <2>4. CASE res.assoc[fd] # <<>> /\ res.workers[w].pc = "sockets" /\ SocketEvent(res, fd, mode) = T
    <3>1. w \in DOMAIN res.workers
      BY <1>0, <2>2, <2>4 DEF SelectTypes
    <3>2. res.workers[w].pc \in Running /\ "sockets" \in Running
      BY <2>4 DEF Running
    <3> HIDE DEF w, i
    <3>3. Leaves(JobData(res, w), d)
      <4>1. Leaves(JobData(res, w), JobData(res, w))
        BY <3>1, <3>2, LeavesSame
      <4> QED BY <4>1, LeavesFields
    <3> HIDE DEF d
    <3>4. DOMAIN T = ResFields /\ T.pool = res.pool /\ T.current = res.current /\ T.assoc = res.assoc
      BY <1>0 DEF Works, SelectTypes, ResFields
    <3> HIDE DEF T
    <3>5. /\ res'.callers = T.callers /\ res'.workers = T.workers
          /\ res'.pool = res.pool /\ res'.current = res.current /\ DOMAIN res' = ResFields /\ res'.assoc = res.assoc
      BY <1>4, <2>4, <3>4 DEF ResFields
    <3>6. DOMAIN res'.assoc = SocketFds /\ \A b \in SocketFds : res'.assoc[b] # <<>> => res'.assoc[b][1] \in DOMAIN res.workers
      BY <1>0, <3>5 DEF SelectTypes
    <3> QED BY <3>1, <3>2, <3>3, <3>5, <3>6, WorksStep DEF T
  <2>5. SocketEvent(res, fd, mode) = res \/ (res.assoc[fd] # <<>> /\ res.workers[w].pc = "sockets" /\ SocketEvent(res, fd, mode) = T)
    BY DEF SocketEvent
  <2> HIDE DEF w, i, T, d
  <2> QED BY <2>3, <2>4, <2>5
<1>5. \/ \E i : res' = [res EXCEPT !.input = i]
      \/ \E s, o : res' = [res EXCEPT !.console = s, !.others = o]
      \/ \E s : res' = [res EXCEPT !.console = s]
      \/ \E mode \in {"read", "write", "except"} : \E fd \in {q[mode][i] : i \in DOMAIN q[mode]} :
           DescrKind[fd] \in {"socket", "unbound"} /\ \E e : res' = [SocketEvent(res, fd, mode) EXCEPT !.events = e]
  BY DEF Arrives
<1> HIDE DEF q
<1> QED BY <1>1, <1>2, <1>3, <1>4, <1>5

\* A step in which caller c puts worker w, which nobody else has, in another place or another state.
LEMMA PlaceStep ==
  ASSUME SelectInv, UNCHANGED job, NEW c \in Callers, NEW w,
         \A b \in Callers : b # c => res'.callers[b] = res.callers[b],
         DOMAIN res'.workers = DOMAIN res.workers \cup {w},
         \A v \in DOMAIN res.workers : v # w => res'.workers[v] = res.workers[v],
         \A v : v # w => (InPool(v)' <=> InPool(v)),
         \A v : v # w => ~Holds(c, v) /\ ~Holds(c, v)',
         \A k, v : v # w => (Watches(c, k, v)' <=> Watches(c, k, v)),
         \A k, v : v # w /\ Watches(c, k, v) => ~res'.callers[c].data[k].freed,
         \A b : b # c => ~Holds(b, w) /\ \A k : ~Watches(b, k, w),
         ~(Holds(c, w)' /\ InPool(w)'),
         \A k : Watches(c, k, w)' => ~Holds(c, w)' /\ ~InPool(w)',
         \A k1, k2 : Watches(c, k1, w)' /\ Watches(c, k2, w)' => k1 = k2,
         WorkerAt(w, "exited")' \/ InPool(w)' \/ Holds(c, w)' \/ (\E k : Watches(c, k, w)'),
         WorkerOk(w)', Phase(res'.callers[c])
  PROVE  OnePlace' /\ Placed' /\ WorkersAt' /\ CallPhases'
<1>0. Callers' = Callers
  BY DEF Callers
<1>1. \A b, k, v : b # c => (Watches(b, k, v)' <=> Watches(b, k, v))
  BY <1>0 DEF Watches
<1>2. \A b, v : b # c => (Holds(b, v)' <=> Holds(b, v))
  BY <1>0 DEF Holds
<1>3. \A b, k, v : v # w => (Watches(b, k, v)' <=> Watches(b, k, v))
  BY <1>1
<1>4. \A b, v : v # w => (Holds(b, v)' <=> Holds(b, v))
  BY <1>2
<1>5. \A b, k : Watches(b, k, w)' => b = c
  BY <1>1
<1>6. \A b : Holds(b, w)' => b = c
  BY <1>2
<1>7. OnePlace'
  <2>1. \A c1, k1, c2, k2, v : Watches(c1, k1, v)' /\ Watches(c2, k2, v)' => c1 = c2 /\ k1 = k2
    BY <1>3, <1>5 DEF SelectInv, OnePlace
  <2>2. \A c1, c2, v : Holds(c1, v)' /\ Holds(c2, v)' => c1 = c2
    BY <1>4, <1>6 DEF SelectInv, OnePlace
  <2>3. \A c1, k, c2, v : ~(Watches(c1, k, v)' /\ Holds(c2, v)')
    BY <1>3, <1>4, <1>5, <1>6 DEF SelectInv, OnePlace
  <2>4. \A b, k, v : ~(Watches(b, k, v)' /\ InPool(v)')
    BY <1>3, <1>5 DEF SelectInv, OnePlace
  <2>5. \A b, v : ~(Holds(b, v)' /\ InPool(v)')
    BY <1>4, <1>6 DEF SelectInv, OnePlace
  <2> QED BY <2>1, <2>2, <2>3, <2>4, <2>5 DEF OnePlace
<1>8. Placed'
  <2>1. \A v \in DOMAIN res.workers : v # w => (WorkerAt(v, "exited")' <=> WorkerAt(v, "exited"))
    BY DEF WorkerAt
  <2>2. /\ \A b, k, v : Watches(b, k, v)' => v \in DOMAIN res'.workers
        /\ \A b, v : Holds(b, v)' => v \in DOMAIN res'.workers
        /\ \A v : InPool(v)' => v \in DOMAIN res'.workers
    BY <1>3, <1>4 DEF SelectInv, Placed
  <2>3. ASSUME NEW v \in DOMAIN res.workers, v # w
        PROVE  WorkerAt(v, "exited")' \/ InPool(v)' \/ (\E b : Holds(b, v)') \/ (\E b, k : Watches(b, k, v)')
    BY <1>3, <1>4, <2>1, <2>3 DEF SelectInv, Placed
  <2> QED BY <2>2, <2>3 DEF Placed
<1>9. WorkersAt'
  <2> SUFFICES ASSUME NEW v \in DOMAIN res.workers, v # w PROVE WorkerOk(v)'
    BY DEF WorkersAt
  <2>0. WorkerOk(v) /\ res'.workers[v] = res.workers[v]
    BY DEF SelectInv, WorkersAt
  <2>1. ReadyRests(res'.workers[v]) /\ (InPool(v)' => Resting(res'.workers[v]))
    BY <2>0 DEF WorkerOk
  <2>2. HeldAt(v)'
    <3> SUFFICES ASSUME NEW b, Holds(b, v)'
                 PROVE  /\ res'.callers[b].pc \in EndPcs => Ending(res'.workers[v])
                        /\ res'.callers[b].pc \notin EndPcs => Resting(res'.workers[v])
                        /\ res'.callers[b].pc = "ready" => ~res'.workers[v].done
      BY DEF HeldAt
    <3>1. b # c /\ Holds(b, v) /\ b \in Callers
      BY <1>4 DEF Holds
    <3>2. res'.callers[b] = res.callers[b]
      BY <3>1
    <3> QED BY <2>0, <3>1, <3>2 DEF WorkerOk, HeldAt
  <2>3. WatchedAt(v)'
    <3> SUFFICES ASSUME NEW b, NEW k, Watches(b, k, v)' PROVE Watching(res'.workers[v], b, k) /\ ~res'.callers[b].data[k].freed
      BY DEF WatchedAt
    <3>1. Watches(b, k, v)
      BY <1>3
    <3>2. Watching(res.workers[v], b, k) /\ ~res.callers[b].data[k].freed /\ b \in Callers
      BY <2>0, <3>1 DEF WorkerOk, WatchedAt, Watches
    <3>3. ~res'.callers[b].data[k].freed
      BY <3>1, <3>2
    <3> QED BY <2>0, <3>2, <3>3
  <2> QED BY <2>1, <2>2, <2>3 DEF WorkerOk
<1>10. CallPhases'
  BY <1>0 DEF SelectInv, CallPhases
<1> QED BY <1>7, <1>8, <1>9, <1>10

\* The same, its hypotheses in one: only the worker w changes its place, by a step of caller c.
PlacesKept(c, w) ==
  /\ \A b \in Callers : b # c => res'.callers[b] = res.callers[b]
  /\ DOMAIN res'.workers = DOMAIN res.workers \cup {w}
  /\ \A v \in DOMAIN res.workers : v # w => res'.workers[v] = res.workers[v]
  /\ \A v : v # w => (InPool(v)' <=> InPool(v))
  /\ \A v : v # w => ~Holds(c, v) /\ ~Holds(c, v)'
  /\ \A k, v : v # w => (Watches(c, k, v)' <=> Watches(c, k, v))
  /\ \A k, v : v # w /\ Watches(c, k, v) => ~res'.callers[c].data[k].freed
  /\ \A b : b # c => ~Holds(b, w) /\ \A k : ~Watches(b, k, w)
  /\ ~(Holds(c, w)' /\ InPool(w)')
  /\ \A k : Watches(c, k, w)' => ~Holds(c, w)' /\ ~InPool(w)'
  /\ \A k1, k2 : Watches(c, k1, w)' /\ Watches(c, k2, w)' => k1 = k2
  /\ WorkerAt(w, "exited")' \/ InPool(w)' \/ Holds(c, w)' \/ (\E k : Watches(c, k, w)')
  /\ WorkerOk(w)' /\ Phase(res'.callers[c])
LEMMA PlacesStay ==
  ASSUME SelectInv, UNCHANGED job, NEW c \in Callers, NEW w, PlacesKept(c, w)
  PROVE  OnePlace' /\ Placed' /\ WorkersAt' /\ CallPhases'
BY PlaceStep DEF PlacesKept

\* Caller c holds w: nobody else does anything with w.
LEMMA HeldAlone ==
  ASSUME SelectInv, NEW c, NEW w, Holds(c, w)
  PROVE  /\ w \in DOMAIN res.workers /\ WorkerOk(w) /\ ~InPool(w)
         /\ \A b : b # c => ~Holds(b, w)
         /\ \A b, k : ~Watches(b, k, w)
<1>1. w \in DOMAIN res.workers
  BY DEF SelectInv, Placed
<1> QED BY <1>1 DEF SelectInv, OnePlace, WorkersAt

\* worker_job_submit.
LEMMA JobStepAt ==
  ASSUME SelectInv, UNCHANGED job, NEW c \in Callers, worker_job_submit(c),
         NEW x, x = res.callers[c], NEW w, w = x.using, NEW k, k = x.k, NEW z, z = res.workers[w]
  PROVE  SelectInv'
<1> DEFINE d == [x.data[k] EXCEPT !.worker = w]
           data == [x.data EXCEPT ![k] = d]
           y == [x EXCEPT !.pc = "submit", !.data = data, !.k = k + 1]
           u == [z EXCEPT !.ready = FALSE, !.cmd = "exec", !.command = TRUE, !.data = <<c, k>>]
<1>1. /\ IsCaller(x) /\ Phase(x) /\ x.pc = "ready" /\ SelectTypes /\ x.pc \notin CleanPcs /\ ~Ended(c)
      /\ Holds(c, w) /\ Readies(c, w) /\ z.ready
  BY CallerTypes DEF worker_job_submit, Caller, Ended, Returned, Interrupted, HoldPcs, CleanPcs, Holds, Readies
<1>2. ~Cleaning
  BY <1>1, NotCleaning
<1>3. w \in DOMAIN res.workers /\ w \in Nat \ {0}
  <2>1. w \in DOMAIN res.workers
    BY <1>1, HeldAlone
  <2> QED BY <1>1, <2>1 DEF SelectTypes
<1>4. /\ k \in DOMAIN x.data /\ x.data[k].worker = 0 /\ ~x.data[k].freed /\ k \in Nat \ {0}
      /\ \A j \in DOMAIN x.data : j \in Nat /\ ~x.data[j].freed /\ (j >= k => x.data[j].worker = 0)
  <2>1. k \in DOMAIN x.data /\ k \in Nat \ {0} /\ \A j \in DOMAIN x.data : j \in Nat
    BY <1>1 DEF Phase, IsCaller, IsDataList
  <2>2. \A j \in DOMAIN x.data : ~x.data[j].freed /\ (j >= k => x.data[j].worker = 0)
    BY <1>1 DEF Phase
  <2>3. k >= k
    BY <2>1
  <2> QED BY <2>1, <2>2, <2>3
<1>5. /\ res'.callers = [res.callers EXCEPT ![c] = y] /\ res'.workers = [res.workers EXCEPT ![w] = u] /\ res'.pool = res.pool
      /\ res'.current = res.current /\ res'.assoc = res.assoc /\ DOMAIN res' = ResFields
  <2> DEFINE t == Command(res, w, "exec")
             v == [z EXCEPT !.ready = FALSE, !.cmd = "exec", !.command = TRUE]
             m == [res.workers EXCEPT ![w] = v]
  <2>1. /\ t.callers = res.callers /\ t.workers = m /\ t.pool = res.pool /\ t.current = res.current
        /\ t.assoc = res.assoc /\ DOMAIN t = ResFields
    BY <1>1 DEF Command, SelectTypes, ResFields
  <2>2. res' = [t EXCEPT !.workers[w].data = <<c, k>>, !.callers[c] = [t.callers[c] EXCEPT !.pc = "submit", !.data[k].worker = w, !.k = k + 1]]
    BY DEF worker_job_submit
  <2> HIDE DEF t
  <2>3. [m EXCEPT ![w].data = <<c, k>>] = [res.workers EXCEPT ![w] = u]
    <3>1. m[w] = v /\ w \in DOMAIN m
      BY <1>3
    <3>2. [v EXCEPT !.data = <<c, k>>] = u
      OBVIOUS
    <3>3. [m EXCEPT ![w].data = <<c, k>>] = [m EXCEPT ![w] = u]
      BY <3>1, <3>2
    <3> HIDE DEF u, v
    <3> QED BY <3>3
  <2> HIDE DEF m, u
  <2>4. [x EXCEPT !.pc = "submit", !.data[k].worker = w, !.k = k + 1] = y
    OBVIOUS
  <2> HIDE DEF y
  <2> QED BY <2>1, <2>2, <2>3, <2>4 DEF ResFields
<1>6. u \in WorkerSet /\ u.pc = z.pc /\ u.cmd = "exec" /\ u.data = <<c, k>>
  <2>1. z \in WorkerSet /\ k \in Nat
    BY <1>3, <1>4, WorkerTypes
  <2> QED BY <2>1 DEF WorkerSet
<1>7. u.command = TRUE /\ u.done = z.done /\ u.ready = FALSE
  <2>1. z \in WorkerSet
    BY <1>3, WorkerTypes
  <2> QED BY <2>1 DEF WorkerSet
<1>8. z.pc = "waiting" /\ ~z.done
  <2>1. WorkerOk(w)
    BY <1>1, HeldAlone
  <2> QED BY <1>1, <2>1 DEF WorkerOk, ReadyRests, HeldAt
<1> HIDE DEF u
<1>9. DOMAIN d = DataFields /\ d.worker = w
  <2>1. DOMAIN x.data[k] = DataFields
    BY <1>1, <1>4 DEF IsCaller, IsDataList, IsData
  <2> QED BY <1>3, <2>1 DEF DataFields
<1>10. ~d.freed
  <2>1. DOMAIN x.data[k] = DataFields
    BY <1>1, <1>4 DEF IsCaller, IsDataList, IsData
  <2>2. d.freed = x.data[k].freed
    BY <2>1 DEF DataFields
  <2> QED BY <1>4, <2>2
<1> HIDE DEF d
<1>11. DOMAIN data = DOMAIN x.data /\ data[k] = d /\ \A i \in DOMAIN x.data : i # k => data[i] = x.data[i]
  BY <1>4
<1> HIDE DEF data
<1>12. IsDataList(data)
  BY <1>1, <1>3, <1>9, <1>11 DEF IsCaller, IsDataList, IsData
<1>13. DOMAIN y = CallerFields /\ y.pc = "submit" /\ y.data = data /\ y.using = w /\ y.k = k + 1
  <2> QED BY <1>1 DEF IsCaller, CallerFields
<1> HIDE DEF y
<1>14. IsCaller(y)
  BY <1>1, <1>4, <1>12, <1>13 DEF IsCaller
<1>16. /\ res'.workers \in Seq(WorkerSet) /\ DOMAIN res'.workers = DOMAIN res.workers
       /\ res'.workers[w] = u /\ \A v \in DOMAIN res.workers : v # w => res'.workers[v] = res.workers[v]
  <2> QED BY <1>1, <1>3, <1>6, <1>5 DEF SelectTypes
<1>17. SelectTypes' /\ res'.callers[c] = y /\ \A b \in Callers : b # c => res'.callers[b] = res.callers[b]
  <2>1. res.pool \in Seq(Nat) /\ Len(res.pool) <= THREAD_WORKERS_MAX /\ res.current \in Int
    BY <1>1 DEF SelectTypes
  <2> QED BY <1>14, <1>5, <1>16, <2>1, SetCallerTypes
<1> DEFINE Alone == /\ w \in DOMAIN res.workers /\ WorkerOk(w) /\ ~InPool(w)
                    /\ \A b : b # c => ~Holds(b, w)
                    /\ \A b, j : ~Watches(b, j, w)
<1>18. Alone
  BY <1>1, HeldAlone
<1>19. Callers' = Callers /\ c \in Callers
  BY DEF Callers
<1>20. \A j, v : Watches(c, j, v)' <=> (Watches(c, j, v) \/ (j = k /\ v = w))
  <2>1. \A j, v : Watches(c, j, v)' <=> (j \in DOMAIN data /\ data[j].worker = v /\ v # 0)
    BY <1>13, <1>17, <1>19 DEF Watches
  <2>2. \A j, v : Watches(c, j, v) <=> (j \in DOMAIN x.data /\ x.data[j].worker = v /\ v # 0)
    BY DEF Watches
  <2> QED BY <1>3, <1>4, <1>9, <1>11, <2>1, <2>2
<1>21. \A v : ~Holds(c, v)' /\ ~Readies(c, v)'
  BY <1>13, <1>17 DEF Holds, Readies, HoldPcs
<1>22. \A v : v # w => ~Holds(c, v) /\ ~Readies(c, v)
  BY DEF Holds, Readies
<1>23. \A v : InPool(v)' <=> InPool(v)
  BY <1>5 DEF InPool
<1>24. Phase(y)
  <2>1. \A j \in DOMAIN data : ~data[j].freed
    BY <1>4, <1>10, <1>11
  <2>2. \A j \in DOMAIN data : j >= k + 1 => data[j].worker = 0
    <3>1. \A j \in DOMAIN data : j \in Nat /\ (j >= k + 1 => j # k /\ j >= k)
      BY <1>4, <1>11
    <3> QED BY <1>4, <1>11, <3>1
  <2> QED BY <1>13, <2>1, <2>2 DEF Phase, CleanPcs
<1>25. WorkerOk(w)'
  <2>1. ReadyRests(u)
    BY <1>7 DEF ReadyRests
  <2>2. Watching(u, c, k)
    BY <1>6, <1>7, <1>8 DEF Watching
  <2>3. \A b : ~Holds(b, w)'
    <3>1. \A b : b # c => (Holds(b, w)' <=> Holds(b, w))
      BY <1>17, <1>19 DEF Holds
    <3> QED BY <1>18, <1>21, <3>1
  <2>4. \A b, j : Watches(b, j, w)' => b = c /\ j = k
    <3>1. \A b, j : b # c => (Watches(b, j, w)' <=> Watches(b, j, w))
      BY <1>17, <1>19 DEF Watches
    <3> QED BY <1>18, <1>20, <3>1
  <2>5. ~res'.callers[c].data[k].freed
    BY <1>10, <1>11, <1>13, <1>17
  <2>6. WatchedAt(w)'
    BY <1>16, <2>2, <2>4, <2>5 DEF WatchedAt
  <2>7. HeldAt(w)'
    BY <2>3 DEF HeldAt
  <2> QED BY <1>16, <1>18, <1>23, <2>1, <2>6, <2>7 DEF WorkerOk
<1>26. OnePlace' /\ Placed' /\ WorkersAt' /\ CallPhases'
  <2>1. DOMAIN res'.workers = DOMAIN res.workers \cup {w}
    BY <1>3, <1>16
  <2>2. \A j, v : Watches(c, j, v) => ~res'.callers[c].data[j].freed
    <3>1. \A j, v : Watches(c, j, v) => j \in DOMAIN x.data /\ j # k
      BY <1>4 DEF Watches
    <3> QED BY <1>4, <1>11, <1>13, <1>17, <3>1
  <2>3. \E j : Watches(c, j, w)'
    BY <1>20
  <2> QED BY <1>16, <1>17, <1>18, <1>20, <1>21, <1>22, <1>23, <1>24, <1>25, <2>1, <2>2, <2>3, PlaceStep
<1>27. PoolOnce'
  BY <1>5 DEF SelectInv, PoolOnce
<1>28. Busy' = Busy
  <2>1. \A b, v : b # c => (Readies(b, v)' <=> Readies(b, v))
    BY <1>17, <1>19 DEF Readies
  <2>2. \A b, j, v : b # c => (Watches(b, j, v)' <=> Watches(b, j, v))
    BY <1>17, <1>19 DEF Watches
  <2>3. Readies(c, w) /\ Watches(c, k, w)'
    BY <1>1, <1>20
  <2>4. \A v \in DOMAIN res.workers : ((\E b : Readies(b, v)') \/ (\E b, j : Watches(b, j, v)')) <=> ((\E b : Readies(b, v)) \/ (\E b, j : Watches(b, j, v)))
    <3> SUFFICES ASSUME NEW v \in DOMAIN res.workers
                 PROVE  ((\E b : Readies(b, v)') \/ (\E b, j : Watches(b, j, v)')) <=> ((\E b : Readies(b, v)) \/ (\E b, j : Watches(b, j, v)))
      OBVIOUS
    <3>1. CASE v = w
      BY <2>3, <3>1
    <3>2. CASE v # w
      <4>1. \A b : Readies(b, v)' <=> Readies(b, v)
        BY <1>21, <1>22, <2>1, <3>2
      <4>2. \A b, j : Watches(b, j, v)' <=> Watches(b, j, v)
        BY <1>20, <2>2, <3>2
      <4> QED BY <4>1, <4>2
    <3> QED BY <3>1, <3>2
  <2> QED BY <1>16, <2>4 DEF Busy
<1>29. CountExact' /\ AtEnd'
  <2>1. 0 \in Callers
    BY <1>1, OneCalls DEF SelectTypes
  <2>2. ~Cleaning'
    BY <1>2, <1>13, <1>17, <2>1 DEF Cleaning, CleanPcs
  <2>3. CountExact'
    BY <1>2, <1>5, <1>28, <2>2 DEF SelectInv, CountExact
  <2>4. \A b \in Callers : b # 0 => res'.callers[b].pc \notin CleanPcs
    BY <1>13, <1>17 DEF SelectInv, AtEnd, CleanPcs
  <2>5. ~Caller(0, "exit")'
    BY <2>2 DEF Caller, Cleaning, CleanPcs
  <2> QED BY <1>19, <2>2, <2>3, <2>4, <2>5 DEF AtEnd
<1> QED BY <1>17, <1>26, <1>27, <1>29 DEF SelectInv

\* worker_job_submit keeps the invariant.
LEMMA JobStep ==
  ASSUME SelectInv, UNCHANGED job, NEW c \in Callers, worker_job_submit(c)
  PROVE  SelectInv'
<1>1. \E x, w, k, z : x = res.callers[c] /\ w = x.using /\ k = x.k /\ z = res.workers[w]
  OBVIOUS
<1> QED BY <1>1, JobStepAt

\* What worker_pop gives: a worker that nobody has and that is at rest.
Popped(t, w) ==
  /\ DOMAIN t = ResFields /\ t.callers = res.callers /\ t.current = res.current + 1 /\ t.assoc = res.assoc
  /\ t.workers \in Seq(WorkerSet) /\ DOMAIN t.workers = DOMAIN res.workers \cup {w} /\ w \in Nat \ {0}
  /\ \A v \in DOMAIN res.workers : v # w => t.workers[v] = res.workers[v]
  /\ t.pool \in Seq(Nat) /\ Len(t.pool) <= THREAD_WORKERS_MAX
  /\ \A v : (\E i \in DOMAIN t.pool : t.pool[i] = v) <=> (InPool(v) /\ v # w)
  /\ \A i, j \in DOMAIN t.pool : t.pool[i] = t.pool[j] => i = j
  /\ Resting(t.workers[w]) /\ ReadyRests(t.workers[w]) /\ ~t.workers[w].done
  /\ \A b : ~Holds(b, w)
  /\ \A b, k : ~Watches(b, k, w)

\* worker_pop with an empty pool: a new worker.
LEMMA PopFresh ==
  ASSUME SelectInv, NEW w, w = PoppedWorker(res), NEW t, t = worker_pop(res), res.pool = <<>>
  PROVE  Popped(t, w)
<1>0. SelectTypes
  BY DEF SelectInv
<1> DEFINE n == Len(res.workers)
           s == Append(res.workers, worker_new)
           u == [worker_new EXCEPT !.stop = FALSE, !.done = FALSE, !.data = <<>>]
           f == [s EXCEPT ![w] = u]
<1>1. w = n + 1 /\ n \in Nat /\ DOMAIN res.workers = 1 .. n
  BY <1>0 DEF PoppedWorker, SelectTypes
<1>2. worker_new \in WorkerSet
  BY DEF worker_new, WorkerSet, Running
<1>u. u \in WorkerSet /\ u.pc = "start"
  <2>1. worker_new.pc = "start"
    BY DEF worker_new
  <2> QED BY <1>2, <2>1 DEF WorkerSet
<1>v. u.ready = FALSE /\ u.command = FALSE /\ u.done = FALSE
  <2>1. worker_new.ready = FALSE /\ worker_new.command = FALSE
    BY DEF worker_new
  <2> QED BY <1>2, <2>1 DEF WorkerSet
<1>3. s \in Seq(WorkerSet) /\ Len(s) = n + 1 /\ s[n + 1] = worker_new /\ \A v \in 1 .. n : s[v] = res.workers[v]
  BY <1>0, <1>1, <1>2 DEF SelectTypes
<1> HIDE DEF s, u
<1>4. f \in Seq(WorkerSet) /\ DOMAIN f = 1 .. n + 1 /\ f[w] = u /\ \A v \in 1 .. n : f[v] = s[v]
  BY <1>1, <1>3, <1>u
<1>5. w \notin DOMAIN res.workers /\ 1 .. n + 1 = (1 .. n) \cup {w} /\ w \in Nat \ {0}
  BY <1>1
<1>6. (\A b : ~Holds(b, w)) /\ (\A b, k : ~Watches(b, k, w)) /\ ~InPool(w)
  BY <1>5 DEF SelectInv, Placed
<1>7. DOMAIN t = ResFields /\ t.callers = res.callers /\ t.current = res.current + 1 /\ t.assoc = res.assoc /\ t.pool = res.pool /\ t.workers = f
  <2>1. s[w] = worker_new
    BY <1>1, <1>3
  <2>2. DOMAIN [res EXCEPT !.workers = s] = ResFields
    BY <1>0 DEF SelectTypes, ResFields
  <2>3. PICK m : t = [[res EXCEPT !.workers = s] EXCEPT !.current = [res EXCEPT !.workers = s].current + 1, !.max = m,
                        !.workers[w] = [[res EXCEPT !.workers = s].workers[w] EXCEPT !.stop = FALSE, !.done = FALSE, !.data = <<>>]]
    BY DEF worker_pop, s
  <2>4. [res EXCEPT !.workers = s].workers = s /\ [res EXCEPT !.workers = s].current = res.current
    BY <1>0 DEF SelectTypes, ResFields
  <2>5. [[res EXCEPT !.workers = s].workers[w] EXCEPT !.stop = FALSE, !.done = FALSE, !.data = <<>>] = u
    BY <2>1, <2>4 DEF u
  <2>6. t = [[res EXCEPT !.workers = s] EXCEPT !.current = res.current + 1, !.max = m, !.workers[w] = u]
    BY <2>3, <2>4, <2>5
  <2> QED BY <1>0, <2>6 DEF SelectTypes, ResFields
<1>8. Resting(u) /\ ReadyRests(u) /\ ~u.done
  BY <1>u, <1>v DEF Resting, ReadyRests
<1> HIDE DEF f
<1>9. t.pool \in Seq(Nat) /\ Len(t.pool) <= THREAD_WORKERS_MAX
  BY <1>0, <1>7 DEF SelectTypes
<1>10. \A v : (\E i \in DOMAIN t.pool : t.pool[i] = v) <=> (InPool(v) /\ v # w)
  BY <1>6, <1>7 DEF InPool
<1>11. \A i, j \in DOMAIN t.pool : t.pool[i] = t.pool[j] => i = j
  BY <1>7 DEF SelectInv, PoolOnce
<1>12. \A v \in DOMAIN res.workers : v # w => t.workers[v] = res.workers[v]
  BY <1>1, <1>3, <1>4, <1>7
<1>13. t.workers \in Seq(WorkerSet) /\ DOMAIN t.workers = DOMAIN res.workers \cup {w} /\ t.workers[w] = u
  BY <1>1, <1>4, <1>5, <1>7
<1> QED BY <1>5, <1>6, <1>7, <1>8, <1>9, <1>10, <1>11, <1>12, <1>13 DEF Popped

\* worker_pop takes the first worker of the pool.
LEMMA PopPooled ==
  ASSUME SelectInv, NEW w, w = PoppedWorker(res), NEW t, t = worker_pop(res), res.pool # <<>>
  PROVE  Popped(t, w)
<1>0. SelectTypes
  BY DEF SelectInv
<1> DEFINE s == Tail(res.pool)
           z == res.workers[w]
           u == [z EXCEPT !.stop = FALSE, !.done = FALSE, !.data = <<>>]
           f == [res.workers EXCEPT ![w] = u]
<1>1. w = res.pool[1] /\ 1 \in DOMAIN res.pool /\ res.pool \in Seq(Nat) /\ Len(res.pool) \in Nat \ {0}
  BY <1>0 DEF PoppedWorker, SelectTypes
<1>2. InPool(w)
  BY <1>1 DEF InPool
<1>3. /\ w \in DOMAIN res.workers /\ WorkerOk(w)
      /\ (\A b : ~Holds(b, w)) /\ (\A b, k : ~Watches(b, k, w))
  BY <1>2 DEF SelectInv, Placed, OnePlace, WorkersAt
<1>4. /\ s \in Seq(Nat) /\ Len(s) = Len(res.pool) - 1 /\ DOMAIN s = 1 .. Len(res.pool) - 1 /\ DOMAIN res.pool = 1 .. Len(res.pool)
      /\ \A i \in DOMAIN s : s[i] = res.pool[i + 1]
  BY <1>1
<1>5. z \in WorkerSet
  BY <1>3, WorkerTypes
<1>6. u \in WorkerSet /\ u.pc = z.pc
  <2> HIDE DEF z
  <2> QED BY <1>5 DEF WorkerSet
<1>7. u.ready = z.ready /\ u.command = z.command /\ u.done = FALSE
  <2> HIDE DEF z
  <2> QED BY <1>5 DEF WorkerSet
<1>8. Resting(u) /\ ReadyRests(u) /\ ~u.done
  <2>1. Resting(z) /\ ReadyRests(z)
    BY <1>2, <1>3 DEF WorkerOk
  <2> HIDE DEF z, u
  <2> QED BY <1>6, <1>7, <2>1 DEF Resting, ReadyRests
<1>9. DOMAIN t = ResFields /\ t.callers = res.callers /\ t.current = res.current + 1 /\ t.assoc = res.assoc /\ t.pool = s /\ t.workers = f
  <2> DEFINE r == [res EXCEPT !.pool = s]
             m == IF res.current + 1 > r.max THEN res.current + 1 ELSE r.max
  <2>1. t = [r EXCEPT !.current = r.current + 1, !.max = m, !.workers[w] = [r.workers[w] EXCEPT !.stop = FALSE, !.done = FALSE, !.data = <<>>]]
    BY DEF worker_pop
  <2>2. DOMAIN r = ResFields /\ r.callers = res.callers /\ r.current = res.current /\ r.assoc = res.assoc /\ r.pool = s /\ r.workers = res.workers
    BY <1>0 DEF SelectTypes, ResFields
  <2> HIDE DEF r, s, m
  <2>3. t = [r EXCEPT !.current = res.current + 1, !.max = m, !.workers[w] = u]
    BY <2>1, <2>2
  <2> HIDE DEF u
  <2> QED BY <2>2, <2>3 DEF ResFields
<1> HIDE DEF u, s, z
<1>10. /\ f \in Seq(WorkerSet) /\ DOMAIN f = DOMAIN res.workers \cup {w} /\ f[w] = u
       /\ \A v \in DOMAIN res.workers : v # w => f[v] = res.workers[v]
  BY <1>0, <1>3, <1>6 DEF SelectTypes
<1> HIDE DEF f
<1>11. Len(s) <= THREAD_WORKERS_MAX
  <2>1. Len(res.pool) <= THREAD_WORKERS_MAX /\ THREAD_WORKERS_MAX \in Nat
    BY <1>0, SelectAssumption DEF SelectTypes
  <2> QED BY <1>1, <1>4, <2>1
<1>12. \A i, j \in DOMAIN res.pool : res.pool[i] = res.pool[j] => i = j
  BY DEF SelectInv, PoolOnce
<1>13. \A i \in DOMAIN s : i \in Nat /\ i + 1 \in DOMAIN res.pool /\ i + 1 # 1
  <2>1. \A n \in Nat : \A i \in 1 .. n - 1 : i \in Nat /\ i + 1 \in 1 .. n /\ i + 1 # 1
    OBVIOUS
  <2> QED BY <1>1, <1>4, <2>1
<1>14. \A i, j \in DOMAIN s : s[i] = s[j] => i = j
  <2>1. \A i, j \in DOMAIN s : s[i] = s[j] => i + 1 = j + 1
    BY <1>4, <1>12, <1>13
  <2> QED BY <1>13, <2>1
<1>15. \A v : (\E i \in DOMAIN s : s[i] = v) <=> (InPool(v) /\ v # w)
  <2>1. ASSUME NEW i \in DOMAIN s PROVE InPool(s[i]) /\ s[i] # w
    BY <1>1, <1>4, <1>12, <1>13 DEF InPool
  <2>2. ASSUME NEW v, InPool(v), v # w PROVE \E i \in DOMAIN s : s[i] = v
    <3>1. PICK j \in DOMAIN res.pool : res.pool[j] = v
      BY <2>2 DEF InPool
    <3>2. j # 1
      BY <1>1, <2>2, <3>1
    <3>3. j - 1 \in DOMAIN s /\ (j - 1) + 1 = j
      BY <1>1, <1>4, <3>2
    <3>4. s[j - 1] = v
      BY <1>4, <3>1, <3>3
    <3> QED BY <3>3, <3>4
  <2> QED BY <2>1, <2>2
<1>16. w \in Nat \ {0}
  BY <1>0, <1>3 DEF SelectTypes
<1> QED BY <1>3, <1>4, <1>8, <1>9, <1>10, <1>11, <1>14, <1>15, <1>16 DEF Popped

\* Caller c takes the worker that worker_pop gives.
LEMMA TakeStep ==
  ASSUME SelectInv, UNCHANGED job, NEW c \in Callers, NEW x, x = res.callers[c], x.pc \notin HoldPcs,
         NEW w, NEW t, Popped(t, w), NEW p \in {"ready", "empty"}, NEW y, Phase(y), 
         DOMAIN y = CallerFields, y.pc = p, y.data = x.data, y.using = w, y.k = x.k,
         res'.callers = [res.callers EXCEPT ![c] = y], res'.workers = t.workers, res'.pool = t.pool,
         res'.current = res.current + 1, res'.assoc = res.assoc, DOMAIN res' = ResFields
  PROVE  /\ SelectTypes' /\ OnePlace' /\ Placed' /\ PoolOnce' /\ WorkersAt' /\ CallPhases'
         /\ res'.callers[c] = y /\ \A b \in Callers : b # c => res'.callers[b] = res.callers[b]
         /\ w \notin Busy /\ (p = "ready" => Busy' = Busy \cup {w})
<1>0. SelectTypes /\ IsCaller(x)
  BY CallerTypes
<1>1. DOMAIN y = CallerFields /\ y.pc = p /\ y.data = x.data /\ y.using = w /\ y.k = x.k
  OBVIOUS
<1>2. IsCaller(y) /\ res.current \in Int
  BY <1>0, <1>1 DEF IsCaller, Popped, SelectTypes
<1>3. /\ res'.callers = [res.callers EXCEPT ![c] = y] /\ res'.workers = t.workers /\ res'.pool = t.pool
      /\ res'.current = res.current + 1 /\ res'.assoc = res.assoc /\ DOMAIN res' = ResFields
  OBVIOUS
<1>4. SelectTypes' /\ res'.callers[c] = y /\ \A b \in Callers : b # c => res'.callers[b] = res.callers[b]
  <2>1. /\ t.workers \in Seq(WorkerSet) /\ DOMAIN res.workers \subseteq DOMAIN t.workers
        /\ t.pool \in Seq(Nat) /\ Len(t.pool) <= THREAD_WORKERS_MAX
    BY DEF Popped
  <2>2. res.current + 1 \in Int
    BY <1>2
  <2> QED BY <1>2, <1>3, <2>1, <2>2, SetCallerTypes
<1>5. Callers' = Callers
  BY DEF Callers
<1>6. \A v : InPool(v)' <=> (InPool(v) /\ v # w)
  <2>1. \A v : InPool(v)' <=> (\E i \in DOMAIN t.pool : t.pool[i] = v)
    BY <1>3 DEF InPool
  <2>2. \A v : (\E i \in DOMAIN t.pool : t.pool[i] = v) <=> (InPool(v) /\ v # w)
    BY DEF Popped
  <2> QED BY <2>1, <2>2
<1>7. \A j, v : Watches(c, j, v)' <=> Watches(c, j, v)
  BY <1>1, <1>4, <1>5 DEF Watches
<1>8. Holds(c, w)' /\ \A v : v # w => ~Holds(c, v) /\ ~Holds(c, v)'
  BY <1>1, <1>4, <1>5 DEF Holds, HoldPcs
<1>9. (\A b : ~Holds(b, w)) /\ (\A b, j : ~Watches(b, j, w))
  BY DEF Popped
<1>10. \A b, j : ~Watches(b, j, w)'
  <2>1. \A b, j : b # c => (Watches(b, j, w)' <=> Watches(b, j, w))
    BY <1>4, <1>5 DEF Watches
  <2> QED BY <1>7, <1>9, <2>1
<1>11. \A b : Holds(b, w)' => b = c
  <2>1. \A b : b # c => (Holds(b, w)' <=> Holds(b, w))
    BY <1>4, <1>5 DEF Holds
  <2> QED BY <1>9, <2>1
<1>12. WorkerOk(w)'
  <2>1. res'.workers[w] = t.workers[w] /\ Resting(t.workers[w]) /\ ReadyRests(t.workers[w]) /\ ~t.workers[w].done
    BY <1>3 DEF Popped
  <2>2. HeldAt(w)'
    <3>1. res'.callers[c].pc \notin EndPcs
      BY <1>1, <1>4 DEF EndPcs
    <3> QED BY <1>11, <2>1, <3>1 DEF HeldAt
  <2>3. WatchedAt(w)'
    BY <1>10 DEF WatchedAt
  <2> QED BY <1>6, <2>1, <2>2, <2>3 DEF WorkerOk
<1>13. OnePlace' /\ Placed' /\ WorkersAt' /\ CallPhases'
  <2>1. DOMAIN res'.workers = DOMAIN res.workers \cup {w} /\ \A v \in DOMAIN res.workers : v # w => res'.workers[v] = res.workers[v]
    BY <1>3 DEF Popped
  <2>2. \A j, v : Watches(c, j, v) => ~res'.callers[c].data[j].freed
    BY <1>1, <1>4, WatchedNotFreed DEF Watches
  <2> QED BY <1>4, <1>6, <1>7, <1>8, <1>9, <1>10, <1>12, <2>1, <2>2, PlaceStep
<1>14. PoolOnce'
  BY <1>3 DEF Popped, PoolOnce
<1>15. w \notin Busy
  BY <1>9 DEF Busy, Holds, Readies, HoldPcs
<1>16. ASSUME p = "ready" PROVE Busy' = Busy \cup {w}
  <2>1. \A b, v : v # w => (Readies(b, v)' <=> Readies(b, v))
    <3>1. \A b, v : b # c => (Readies(b, v)' <=> Readies(b, v))
      BY <1>4, <1>5 DEF Readies
    <3>2. \A v : v # w => ~Readies(c, v) /\ ~Readies(c, v)'
      BY <1>8 DEF Readies, Holds, HoldPcs
    <3> QED BY <3>1, <3>2
  <2>2. Readies(c, w)'
    BY <1>1, <1>4, <1>5, <1>16 DEF Readies
  <2>3. \A b, j, v : Watches(b, j, v)' <=> Watches(b, j, v)
    <3>1. \A b, j, v : b # c => (Watches(b, j, v)' <=> Watches(b, j, v))
      BY <1>4, <1>5 DEF Watches
    <3> QED BY <1>7, <3>1
  <2>4. DOMAIN res'.workers = DOMAIN res.workers \cup {w}
    BY <1>3 DEF Popped
  <2>5. \A v : v \in Busy' <=> (v \in Busy \/ v = w)
    <3>1. \A v : v \in Busy' <=> (v \in DOMAIN res'.workers /\ ((\E b : Readies(b, v)') \/ (\E b, j : Watches(b, j, v)')))
      BY DEF Busy
    <3>2. \A v : v \in Busy <=> (v \in DOMAIN res.workers /\ ((\E b : Readies(b, v)) \/ (\E b, j : Watches(b, j, v))))
      BY DEF Busy
    <3>3. w \in Busy'
      BY <2>2, <2>4, <3>1
    <3>4. ASSUME NEW v, v # w PROVE v \in Busy' <=> v \in Busy
      <4>1. \A b : Readies(b, v)' <=> Readies(b, v)
        BY <2>1, <3>4
      <4>2. v \in DOMAIN res'.workers <=> v \in DOMAIN res.workers
        BY <2>4, <3>4
      <4> QED BY <2>3, <3>1, <3>2, <4>1, <4>2
    <3> QED BY <3>3, <3>4
  <2> QED BY <2>5
<1> QED BY <1>1, <1>2, <1>3, <1>4, <1>13, <1>14, <1>15, <1>16

\* Data that is not static gets a worker.
LEMMA SubmitPops ==
  ASSUME SelectInv, UNCHANGED job, NEW c \in Callers, Submit(c), NEW x, x = res.callers[c], x.k \in DOMAIN x.data,
         x.data[x.k].type # "static", NEW w, w = PoppedWorker(res), NEW t, t = worker_pop(res)
  PROVE  SelectInv'
<1> DEFINE y == [x EXCEPT !.pc = "ready", !.using = w]
<1>1. IsCaller(x) /\ Phase(x) /\ x.pc = "submit" /\ x.pc \notin HoldPcs \cup CleanPcs /\ ~Ended(c) /\ SelectTypes
  BY CallerTypes DEF Submit, Caller, Ended, Returned, Interrupted, HoldPcs, CleanPcs
<1>2. ~Cleaning
  BY <1>1, NotCleaning
<1>3. Popped(t, w)
  BY PopFresh, PopPooled
<1>4. res' = [t EXCEPT !.callers[c] = [t.callers[c] EXCEPT !.pc = "ready", !.using = w]]
  <2>1. res.callers[c].k \in DOMAIN res.callers[c].data /\ res.callers[c].data[res.callers[c].k].type # "static"
    OBVIOUS
  <2>2. res' = [worker_pop(res) EXCEPT !.callers[c] = [worker_pop(res).callers[c] EXCEPT !.pc = "ready", !.using = PoppedWorker(res)]]
    BY <2>1 DEF Submit
  <2> QED BY <2>2
<1>5. Phase(y)
  <2>1. y.pc = "ready" /\ y.data = x.data /\ y.k = x.k
    BY <1>1 DEF IsCaller, CallerFields
  <2> HIDE DEF y
  <2> QED BY <1>1, <2>1 DEF Phase, CleanPcs
<1> HIDE DEF y
<1>v. /\ DOMAIN y = CallerFields /\ y.pc = "ready" /\ y.data = x.data /\ y.using = w /\ y.k = x.k
      /\ res'.callers = [res.callers EXCEPT ![c] = y] /\ res'.workers = t.workers /\ res'.pool = t.pool
      /\ res'.current = res.current + 1 /\ res'.assoc = res.assoc /\ DOMAIN res' = ResFields
  <2>1. DOMAIN y = CallerFields /\ y.pc = "ready" /\ y.data = x.data /\ y.using = w /\ y.k = x.k
    BY <1>1 DEF IsCaller, CallerFields, y
  <2>2. t.callers = res.callers /\ DOMAIN t = ResFields /\ t.current = res.current + 1 /\ t.assoc = res.assoc
    BY <1>3 DEF Popped
  <2>3. [t.callers[c] EXCEPT !.pc = "ready", !.using = w] = y
    BY <2>2 DEF y
  <2>4. res' = [t EXCEPT !.callers[c] = y]
    BY <1>4, <2>3
  <2>5. /\ res'.callers = [res.callers EXCEPT ![c] = y] /\ res'.workers = t.workers /\ res'.pool = t.pool
        /\ res'.current = res.current + 1 /\ res'.assoc = res.assoc /\ DOMAIN res' = ResFields
    BY <2>2, <2>4 DEF ResFields
  <2> QED BY <2>1, <2>5
<1>6. /\ SelectTypes' /\ OnePlace' /\ Placed' /\ PoolOnce' /\ WorkersAt' /\ CallPhases'
      /\ res'.callers[c] = y /\ \A b \in Callers : b # c => res'.callers[b] = res.callers[b]
      /\ w \notin Busy /\ Busy' = Busy \cup {w}
  <2>1. x.pc \notin HoldPcs
    BY <1>1
  <2> QED BY <1>3, <1>5, <1>v, <2>1, TakeStep
<1>7. Callers' = Callers /\ 0 \in Callers
  BY <1>1, OneCalls DEF Callers, SelectTypes
<1>8. ~Cleaning'
  BY <1>2, <1>6, <1>7, <1>v DEF Cleaning, CleanPcs
<1>9. res'.current = Cardinality(Busy')
  <2>1. IsFiniteSet(Busy)
    BY <1>1, BusyFinite
  <2>2. res.current = Cardinality(Busy)
    BY <1>2 DEF SelectInv, CountExact
  <2>3. Cardinality(Busy \cup {w}) = Cardinality(Busy) + 1
    BY <1>6, <2>1, FS_AddElement
  <2> QED BY <1>6, <1>v, <2>2, <2>3
<1>10. CountExact'
  BY <1>8, <1>9 DEF CountExact
<1>11. AtEnd'
  <2>1. \A b \in Callers : b # 0 => res'.callers[b].pc \notin CleanPcs
    BY <1>6, <1>v DEF SelectInv, AtEnd, CleanPcs
  <2>2. ~Caller(0, "exit")'
    BY <1>8 DEF Caller, Cleaning, CleanPcs
  <2> QED BY <1>7, <1>8, <2>1, <2>2 DEF AtEnd
<1> QED BY <1>6, <1>10, <1>11 DEF SelectInv

\* Submit keeps the invariant.
LEMMA SubmitStep ==
  ASSUME SelectInv, UNCHANGED job, NEW c \in Callers, Submit(c)
  PROVE  SelectInv'
<1>1. \E x, w, t : x = res.callers[c] /\ w = PoppedWorker(res) /\ t = worker_pop(res)
  OBVIOUS
<1>2. res.callers[c].k \in DOMAIN res.callers[c].data /\ res.callers[c].data[res.callers[c].k].type # "static" => SelectInv'
  BY <1>1, SubmitPops
<1> QED BY <1>2, SubmitDone, SubmitStatic

Alone(c, k, w) ==
  /\ w \in DOMAIN res.workers /\ WorkerOk(w) /\ ~InPool(w)
  /\ \A b : ~Holds(b, w)
  /\ \A b, j : Watches(b, j, w) => b = c /\ j = k
\* A worker that has data is in no other place.
LEMMA WatchedAlone ==
  ASSUME SelectInv, NEW c, NEW k, NEW w, Watches(c, k, w)
  PROVE  Alone(c, k, w)
<1>1. w \in DOMAIN res.workers
  BY DEF SelectInv, Placed
<1> QED BY <1>1 DEF SelectInv, OnePlace, WorkersAt, Alone

\* The end of a step of a caller that is not the one that ends the program.
LEMMA NotEnding ==
  ASSUME SelectInv, SelectTypes, UNCHANGED job, NEW c \in Callers, ~Cleaning,
         res'.callers[c].pc \notin CleanPcs, \A b \in Callers : b # c => res'.callers[b] = res.callers[b]
  PROVE  ~Cleaning' /\ AtEnd'
<1>1. Callers' = Callers /\ 0 \in Callers
  BY OneCalls DEF Callers, SelectTypes
<1>2. ~Cleaning'
  BY <1>1 DEF Cleaning
<1>3. \A b \in Callers : b # 0 => res'.callers[b].pc \notin CleanPcs
  BY DEF SelectInv, AtEnd
<1>4. ~Caller(0, "exit")'
  BY <1>2 DEF Caller, Cleaning, CleanPcs
<1> QED BY <1>1, <1>2, <1>3, <1>4 DEF AtEnd

\* A list with a new head.
LEMMA Prepended ==
  ASSUME NEW S, NEW s \in Seq(S), NEW w \in S
  PROVE  LET t == <<w>> \o s IN
         /\ t \in Seq(S) /\ Len(t) = Len(s) + 1 /\ DOMAIN t = 1 .. Len(s) + 1 /\ t[1] = w
         /\ \A i \in 1 .. Len(s) : t[i + 1] = s[i]
<1> DEFINE t == <<w>> \o s
<1>1. <<w>> \in Seq(S) /\ Len(<<w>>) = 1 /\ Len(s) \in Nat
  OBVIOUS
<1>2. t \in Seq(S) /\ Len(t) = Len(s) + 1
  BY <1>1
<1>3. DOMAIN t = 1 .. Len(s) + 1
  BY <1>2
<1>4. t[1] = w
  BY <1>1
<1>5. \A i \in 1 .. Len(s) : t[i + 1] = s[i]
  BY <1>1
<1> QED BY <1>2, <1>3, <1>4, <1>5

\* select_data_free when a worker has the data.
LEMMA FreeWorkerAt ==
  ASSUME SelectInv, UNCHANGED job, NEW c \in Callers, select_data_free(c), NEW x, x = res.callers[c], NEW k, k = x.k,
         NEW w, w = x.data[k].worker, w # 0, NEW t, t = worker_push(res, w)
  PROVE  SelectInv'
<1> DEFINE d == [x.data[k] EXCEPT !.worker = 0]
           data == [x.data EXCEPT ![k] = d]
           p == IF KeepsWorker(res) THEN "free" ELSE "discard"
           y == [x EXCEPT !.data = data, !.pc = p, !.using = w]
           pool == IF KeepsWorker(res) THEN <<w>> \o res.pool ELSE res.pool
<1>1. /\ IsCaller(x) /\ Phase(x) /\ x.pc = "free" /\ SelectTypes /\ x.pc \notin HoldPcs \cup CleanPcs /\ ~Ended(c)
      /\ k \in DOMAIN x.data /\ res.workers[w].done
  BY CallerTypes DEF select_data_free, Caller, Ended, Returned, Interrupted, HoldPcs, CleanPcs
<1>2. ~Cleaning
  BY <1>1, NotCleaning
<1>3. Watches(c, k, w)
  BY <1>1 DEF Watches
<1>4. /\ w \in DOMAIN res.workers /\ WorkerOk(w) /\ ~InPool(w)
      /\ \A b : ~Holds(b, w)
      /\ \A b, j : Watches(b, j, w) => b = c /\ j = k
  <2>1. Alone(c, k, w)
    BY <1>3, WatchedAlone
  <2> QED BY <2>1 DEF Alone
<1>5. w \in Nat \ {0} /\ k \in Nat /\ res.current \in Int /\ res.pool \in Seq(Nat)
  <2>1. SelectTypes /\ IsCaller(x)
    BY <1>1
  <2>2. res.current \in Int /\ res.pool \in Seq(Nat) /\ res.workers \in Seq(WorkerSet)
    BY <2>1 DEF SelectTypes
  <2>3. w \in Nat \ {0}
    <3>1. DOMAIN res.workers = 1 .. Len(res.workers) /\ Len(res.workers) \in Nat
      BY <2>2
    <3>2. \A n \in Nat : \A v \in 1 .. n : v \in Nat \ {0}
      OBVIOUS
    <3>3. w \in 1 .. Len(res.workers)
      BY <1>4, <3>1
    <3> QED BY <3>1, <3>2, <3>3
  <2>4. k \in Nat
    BY <2>1 DEF IsCaller
  <2> QED BY <2>2, <2>3, <2>4
<1>6. /\ DOMAIN t = ResFields /\ t.callers = res.callers /\ t.workers = res.workers /\ t.pool = pool
      /\ t.current = res.current - 1 /\ t.assoc = res.assoc
  BY <1>1 DEF worker_push, SelectTypes, ResFields
<1>7. res' = [t EXCEPT !.callers[c] = [t.callers[c] EXCEPT !.data[k].worker = 0, !.pc = p, !.using = w]]
  BY DEF select_data_free
<1>8. DOMAIN d = DataFields /\ d.worker = 0
  <2>1. DOMAIN x.data[k] = DataFields
    BY <1>1 DEF IsCaller, IsDataList, IsData
  <2> QED BY <2>1 DEF DataFields
<1>9. [t.callers[c] EXCEPT !.data[k].worker = 0, !.pc = p, !.using = w] = y
  BY <1>6
<1> HIDE DEF d
<1>10. DOMAIN data = DOMAIN x.data /\ data[k] = d /\ \A i \in DOMAIN x.data : i # k => data[i] = x.data[i]
  BY <1>1
<1>11. p \in {"free", "discard"} /\ (p = "free" <=> KeepsWorker(res))
  OBVIOUS
<1> HIDE DEF data, p
<1>12. IsDataList(data)
  <2>1. IsDataList(x.data)
    BY <1>1 DEF IsCaller
  <2>2. IsData(d)
    BY <1>8 DEF IsData
  <2>3. \A i \in DOMAIN data : IsData(data[i])
    BY <1>10, <2>1, <2>2 DEF IsDataList
  <2>4. \E n \in Nat : DOMAIN data = 1 .. n
    BY <1>10, <2>1 DEF IsDataList
  <2> QED BY <2>3, <2>4 DEF IsDataList
<1>13. DOMAIN y = CallerFields /\ y.pc = p /\ y.data = data /\ y.using = w /\ y.k = k
  BY <1>1 DEF IsCaller, CallerFields
<1> HIDE DEF y
<1>14. IsCaller(y)
  BY <1>1, <1>5, <1>12, <1>13 DEF IsCaller
<1>15. /\ res'.callers = [res.callers EXCEPT ![c] = y] /\ res'.workers = res.workers /\ res'.pool = pool
       /\ res'.current = res.current - 1 /\ res'.assoc = res.assoc /\ DOMAIN res' = ResFields
  BY <1>6, <1>7, <1>9 DEF ResFields
<1>16. /\ pool \in Seq(Nat) /\ Len(pool) <= THREAD_WORKERS_MAX
       /\ \A v : (\E i \in DOMAIN pool : pool[i] = v) <=> (InPool(v) \/ (v = w /\ KeepsWorker(res)))
       /\ \A i, j \in DOMAIN pool : pool[i] = pool[j] => i = j
  <2>1. CASE ~KeepsWorker(res)
    <3>1. pool = res.pool
      BY <2>1
    <3>2. res.pool \in Seq(Nat) /\ Len(res.pool) <= THREAD_WORKERS_MAX
      BY <1>1 DEF SelectTypes
    <3>3. \A v : (\E i \in DOMAIN res.pool : res.pool[i] = v) <=> InPool(v)
      BY DEF InPool
    <3>4. \A i, j \in DOMAIN res.pool : res.pool[i] = res.pool[j] => i = j
      BY DEF SelectInv, PoolOnce
    <3> HIDE DEF pool
    <3> QED BY <2>1, <3>1, <3>2, <3>3, <3>4
  <2>2. CASE KeepsWorker(res)
    <3> DEFINE n == Len(res.pool)
    <3>1. pool = <<w>> \o res.pool
      BY <2>2
    <3>2. n \in Nat /\ n < THREAD_WORKERS_MAX /\ DOMAIN res.pool = 1 .. n /\ THREAD_WORKERS_MAX \in Nat
      BY <1>5, <2>2, SelectAssumption DEF KeepsWorker
    <3>4. pool \in Seq(Nat) /\ Len(pool) = n + 1 /\ DOMAIN pool = 1 .. n + 1 /\ pool[1] = w /\ \A i \in 1 .. n : pool[i + 1] = res.pool[i]
      <4> DEFINE r == <<w>> \o res.pool
      <4>1. w \in Nat /\ res.pool \in Seq(Nat)
        BY <1>5
      <4>2. r \in Seq(Nat) /\ Len(r) = n + 1 /\ DOMAIN r = 1 .. n + 1 /\ r[1] = w /\ \A i \in 1 .. n : r[i + 1] = res.pool[i]
        BY <4>1, Prepended, SMTT(20), ZenonT(20)
      <4>3. pool = r
        BY <3>1
      <4> HIDE DEF r, pool
      <4> QED BY <4>2, <4>3
    <3> HIDE DEF pool, n
    <3>5. \A i \in DOMAIN pool : i = 1 \/ \E j \in 1 .. n : i = j + 1
      <4> SUFFICES ASSUME NEW i \in 1 .. n + 1, i # 1 PROVE \E j \in 1 .. n : i = j + 1
        BY <3>4
      <4>1. i - 1 \in 1 .. n /\ i = (i - 1) + 1
        BY <3>2
      <4> QED BY <4>1
    <3>6. 1 \in DOMAIN pool /\ \A j \in 1 .. n : j + 1 \in DOMAIN pool
      BY <3>2, <3>4
    <3>7. \A j \in 1 .. n : res.pool[j] # w
      BY <1>4, <3>2 DEF InPool
    <3>8. \A i, j \in DOMAIN pool : pool[i] = pool[j] => i = j
      <4> SUFFICES ASSUME NEW i \in DOMAIN pool, NEW j \in DOMAIN pool, pool[i] = pool[j] PROVE i = j
        OBVIOUS
      <4>1. CASE i = 1 \/ j = 1
        BY <3>4, <3>5, <3>7, <4>1, SMTT(20), ZenonT(20)
      <4>2. CASE i # 1 /\ j # 1
        <5>1. PICK a \in 1 .. n, b \in 1 .. n : i = a + 1 /\ j = b + 1
          BY <3>5, <4>2
        <5>2. res.pool[a] = res.pool[b]
          BY <3>4, <5>1
        <5>3. a = b
          BY <3>2, <5>1, <5>2 DEF SelectInv, PoolOnce
        <5> QED BY <5>1, <5>3
      <4> QED BY <4>1, <4>2
    <3>9. \A v : (\E i \in DOMAIN pool : pool[i] = v) <=> (InPool(v) \/ v = w)
      <4>1. \A v : InPool(v) <=> \E j \in 1 .. n : res.pool[j] = v
        BY <3>2 DEF InPool
      <4>2. ASSUME NEW i \in DOMAIN pool PROVE InPool(pool[i]) \/ pool[i] = w
        BY <3>4, <3>5, <4>1
      <4>3. ASSUME NEW v, InPool(v) \/ v = w PROVE \E i \in DOMAIN pool : pool[i] = v
        BY <3>4, <3>6, <4>1, <4>3
      <4> QED BY <4>2, <4>3
    <3>10. n + 1 <= THREAD_WORKERS_MAX
      BY <3>2
    <3> QED BY <2>2, <3>4, <3>8, <3>9, <3>10
  <2> QED BY <2>1, <2>2
<1> HIDE DEF pool
<1>17. SelectTypes' /\ res'.callers[c] = y /\ \A b \in Callers : b # c => res'.callers[b] = res.callers[b]
  <2>1. res.workers \in Seq(WorkerSet)
    BY <1>1 DEF SelectTypes
  <2>2. res.current - 1 \in Int
    BY <1>5
  <2>3. /\ res'.workers \in Seq(WorkerSet) /\ DOMAIN res.workers \subseteq DOMAIN res'.workers
        /\ res'.pool \in Seq(Nat) /\ Len(res'.pool) <= THREAD_WORKERS_MAX /\ res'.current \in Int
    BY <1>15, <1>16, <2>1, <2>2
  <2>4. res'.callers = [res.callers EXCEPT ![c] = y] /\ res'.assoc = res.assoc /\ DOMAIN res' = ResFields
    BY <1>15
  <2> QED BY <1>14, <2>3, <2>4, SetCallerTypes
<1>18. Callers' = Callers
  BY DEF Callers
<1>19. \A v : InPool(v)' <=> (InPool(v) \/ (v = w /\ KeepsWorker(res)))
  <2>1. \A v : InPool(v)' <=> (\E i \in DOMAIN pool : pool[i] = v)
    BY <1>15 DEF InPool
  <2> QED BY <1>16, <2>1
<1>20. \A j, v : Watches(c, j, v)' <=> (Watches(c, j, v) /\ v # w)
  <2>1. \A j, v : Watches(c, j, v)' <=> (j \in DOMAIN data /\ data[j].worker = v /\ v # 0)
    BY <1>13, <1>17, <1>18 DEF Watches
  <2>2. \A j, v : Watches(c, j, v) <=> (j \in DOMAIN x.data /\ x.data[j].worker = v /\ v # 0)
    BY DEF Watches
  <2>3. \A j : Watches(c, j, w) => j = k
    BY <1>4
  <2>4. ASSUME NEW j, NEW v, j # k PROVE Watches(c, j, v)' <=> (Watches(c, j, v) /\ v # w)
    BY <1>10, <2>1, <2>2, <2>3, <2>4, SMTT(20), ZenonT(20)
  <2>5. ASSUME NEW v PROVE Watches(c, k, v)' <=> (Watches(c, k, v) /\ v # w)
    <3>1. ~Watches(c, k, v)'
      BY <1>8, <1>10, <2>1
    <3>2. Watches(c, k, v) => v = w
      BY <2>2
    <3> QED BY <3>1, <3>2
  <2> QED BY <2>4, <2>5
<1>21. (\A v : Holds(c, v)' <=> (v = w /\ ~KeepsWorker(res))) /\ (\A v : ~Holds(c, v)) /\ (\A v : ~Readies(c, v) /\ ~Readies(c, v)')
  BY <1>1, <1>11, <1>13, <1>17, <1>18 DEF Holds, Readies, HoldPcs
<1>22. \A b, j : ~Watches(b, j, w)'
  <2>1. \A b, j : b # c => (Watches(b, j, w)' <=> Watches(b, j, w))
    BY <1>17, <1>18 DEF Watches
  <2> QED BY <1>4, <1>20, <2>1
<1>23. \A b : Holds(b, w)' => b = c /\ ~KeepsWorker(res)
  <2>1. \A b : b # c => (Holds(b, w)' <=> Holds(b, w))
    BY <1>17, <1>18 DEF Holds
  <2> QED BY <1>4, <1>21, <2>1
<1>24. Resting(res.workers[w]) /\ ReadyRests(res.workers[w])
  <2>1. Watching(res.workers[w], c, k) /\ ReadyRests(res.workers[w])
    BY <1>3, <1>4 DEF WorkerOk, WatchedAt
  <2> QED BY <1>1, <2>1 DEF Watching, Resting
<1>25. WorkerOk(w)'
  <2>1. HeldAt(w)'
    <3>1. res'.callers[c].pc \notin EndPcs /\ res'.callers[c].pc # "ready"
      BY <1>11, <1>13, <1>17 DEF EndPcs
    <3> QED BY <1>15, <1>23, <1>24, <3>1 DEF HeldAt
  <2>2. WatchedAt(w)'
    BY <1>22 DEF WatchedAt
  <2> QED BY <1>15, <1>24, <2>1, <2>2 DEF WorkerOk
<1>26. Phase(y)
  <2>1. \A j \in DOMAIN data : j < k => data[j].worker = 0
    <3>1. \A j \in DOMAIN x.data : j < k => x.data[j].worker = 0
      BY <1>1 DEF Phase
    <3>2. \A j \in DOMAIN data : j # k => data[j] = x.data[j] /\ j \in DOMAIN x.data
      BY <1>10
    <3>3. data[k].worker = 0
      BY <1>8, <1>10
    <3> QED BY <3>1, <3>2, <3>3
  <2> QED BY <1>11, <1>13, <2>1 DEF Phase, CleanPcs
<1>27. OnePlace' /\ Placed' /\ WorkersAt' /\ CallPhases'
  <2>1. DOMAIN res'.workers = DOMAIN res.workers \cup {w} /\ \A v \in DOMAIN res.workers : v # w => res'.workers[v] = res.workers[v]
    BY <1>4, <1>15
  <2>2. \A j, v : v # w /\ Watches(c, j, v) => ~res'.callers[c].data[j].freed
    <3>1. \A j, v : v # w /\ Watches(c, j, v) => j \in DOMAIN x.data /\ j # k /\ ~x.data[j].freed
      BY WatchedNotFreed DEF Watches
    <3> QED BY <1>10, <1>13, <1>17, <3>1
  <2>3. InPool(w)' \/ Holds(c, w)'
    BY <1>19, <1>21
  <2>4. ~(Holds(c, w)' /\ InPool(w)')
    BY <1>4, <1>19, <1>21
  <2>5. \A v : v # w => (InPool(v)' <=> InPool(v))
    BY <1>19
  <2>6. \A v : v # w => ~Holds(c, v) /\ ~Holds(c, v)'
    BY <1>21
  <2>7. \A j, v : v # w => (Watches(c, j, v)' <=> Watches(c, j, v))
    BY <1>20
  <2>8. \A b : b # c => ~Holds(b, w) /\ \A j : ~Watches(b, j, w)
    BY <1>4
  <2>9. \A j : Watches(c, j, w)' => ~Holds(c, w)' /\ ~InPool(w)'
    BY <1>22
  <2>10. \A k1, k2 : Watches(c, k1, w)' /\ Watches(c, k2, w)' => k1 = k2
    BY <1>22
  <2>11. WorkerAt(w, "exited")' \/ InPool(w)' \/ Holds(c, w)' \/ (\E j : Watches(c, j, w)')
    BY <2>3
  <2>12. Phase(res'.callers[c])
    BY <1>17, <1>26
  <2>13. \A b \in Callers : b # c => res'.callers[b] = res.callers[b]
    BY <1>17
  <2>14. PlacesKept(c, w)
    BY <1>25, <2>1, <2>2, <2>4, <2>5, <2>6, <2>7, <2>8, <2>9, <2>10, <2>11, <2>12, <2>13 DEF PlacesKept
  <2> QED BY <2>14, PlacesStay
<1>28. PoolOnce'
  BY <1>15, <1>16 DEF PoolOnce
<1>29. Busy' = Busy \ {w} /\ w \in Busy
  <2>1. \A b, v : Readies(b, v)' <=> Readies(b, v)
    <3>1. \A b, v : b # c => (Readies(b, v)' <=> Readies(b, v))
      BY <1>17, <1>18 DEF Readies
    <3> QED BY <1>21, <3>1
  <2>2. \A b, j, v : Watches(b, j, v)' <=> (Watches(b, j, v) /\ v # w)
    <3>1. \A b, j, v : b # c => (Watches(b, j, v)' <=> Watches(b, j, v))
      BY <1>17, <1>18 DEF Watches
    <3> QED BY <1>4, <1>20, <3>1
  <2>3. \A b : ~Readies(b, w)
    BY <1>4 DEF Readies, Holds, HoldPcs
  <2>4. \A v : v \in Busy' <=> (v \in DOMAIN res.workers /\ ((\E b : Readies(b, v)) \/ (\E b, j : Watches(b, j, v) /\ v # w)))
    BY <1>15, <2>1, <2>2 DEF Busy
  <2>5. \A v : v \in Busy <=> (v \in DOMAIN res.workers /\ ((\E b : Readies(b, v)) \/ (\E b, j : Watches(b, j, v))))
    BY DEF Busy
  <2>6. w \in Busy
    BY <1>3, <1>4, <2>5
  <2>7. \A v : v \in Busy' <=> (v \in Busy /\ v # w)
    BY <2>3, <2>4, <2>5
  <2> QED BY <2>6, <2>7
<1>30. ~Cleaning' /\ AtEnd'
  <2>1. res'.callers[c].pc \notin CleanPcs
    BY <1>11, <1>13, <1>17 DEF CleanPcs
  <2> QED BY <1>1, <1>2, <1>17, <2>1, NotEnding
<1>31. CountExact'
  <2>1. IsFiniteSet(Busy)
    BY <1>1, BusyFinite
  <2>2. res.current = Cardinality(Busy)
    BY <1>2 DEF SelectInv, CountExact
  <2>3. Cardinality(Busy \ {w}) = Cardinality(Busy) - 1
    BY <1>29, <2>1, FS_RemoveElement
  <2>4. res'.current = Cardinality(Busy')
    BY <1>15, <1>29, <2>2, <2>3
  <2> QED BY <1>30, <2>4 DEF CountExact
<1> QED BY <1>17, <1>27, <1>28, <1>30, <1>31 DEF SelectInv

\* select_data_free keeps the invariant.
LEMMA FreeStep ==
  ASSUME SelectInv, UNCHANGED job, NEW c \in Callers, select_data_free(c)
  PROVE  SelectInv'
<1>1. \E x, k, w, t : x = res.callers[c] /\ k = x.k /\ w = x.data[k].worker /\ t = worker_push(res, w)
  OBVIOUS
<1>2. res.callers[c].data[res.callers[c].k].worker # 0 => SelectInv'
  BY <1>1, FreeWorkerAt
<1> QED BY <1>2, FreeStatic

\* A step of caller c that neither begins nor leaves the end of the program.
LEMMA EndKept ==
  ASSUME SelectInv, SelectTypes, UNCHANGED job, NEW c \in Callers, \A b \in Callers : b # c => res'.callers[b] = res.callers[b],
         res'.callers[c].call = res.callers[c].call, ~Ended(c),
         res'.callers[c].pc \in CleanPcs <=> res.callers[c].pc \in CleanPcs,
         res'.callers[c].pc = "exit" => res'.pool = <<>>
  PROVE  (Cleaning' <=> Cleaning) /\ AtEnd'
<1>1. Callers' = Callers /\ 0 \in Callers
  BY OneCalls DEF Callers, SelectTypes
<1>2. Cleaning' <=> Cleaning
  BY <1>1 DEF Cleaning
<1>3. Cleaning => c = 0
  BY DEF SelectInv, AtEnd
<1>4. \A b \in Callers : b # 0 => res'.callers[b].pc \notin CleanPcs
  BY DEF SelectInv, AtEnd
<1>5. Caller(0, "exit")' => res'.pool = <<>>
  <2> SUFFICES ASSUME res'.callers[0].pc = "exit" PROVE res'.pool = <<>>
    BY DEF Caller
  <2>1. Cleaning'
    BY DEF Cleaning, CleanPcs
  <2>2. c = 0
    BY <1>2, <1>3, <2>1
  <2> QED BY <2>2
<1>6. Cleaning => \A b \in Callers : b # 0 => Ended(b)' /\ (Returned(b)' => res'.callers[b].call = SelectCalls)
  <2>1. Cleaning => \A b \in Callers : b # 0 => Ended(b) /\ (Returned(b) => res.callers[b].call = SelectCalls)
    BY DEF SelectInv, AtEnd
  <2>2. \A b \in Callers : b # c => (Ended(b)' <=> Ended(b)) /\ (Returned(b)' <=> Returned(b))
    BY DEF Ended, Returned, Interrupted
  <2> QED BY <1>3, <2>1, <2>2
<1> QED BY <1>1, <1>2, <1>4, <1>5, <1>6 DEF AtEnd

\* worker_free: the worker is told to stop.
LEMMA StopWorkerAt ==
  ASSUME SelectInv, UNCHANGED job, NEW c \in Callers, NEW x, x = res.callers[c], x.pc \in {"discard", "empty"},
         NEW w, w = x.using, NEW z, z = res.workers[w], z.ready, NEW t, t = Command(res, w, "stop"),
         res' = [t EXCEPT !.callers[c].pc = IF t.callers[c].pc = "discard" THEN "discarded" ELSE "emptied"]
  PROVE  SelectInv'
<1> DEFINE p == IF x.pc = "discard" THEN "discarded" ELSE "emptied"
           y == [x EXCEPT !.pc = p]
           u == [z EXCEPT !.ready = FALSE, !.cmd = "stop", !.command = TRUE]
<1>1. IsCaller(x) /\ Phase(x) /\ SelectTypes /\ ~Ended(c) /\ Holds(c, w)
  BY CallerTypes DEF Ended, Returned, Interrupted, Holds, HoldPcs
<1>2. /\ w \in DOMAIN res.workers /\ WorkerOk(w) /\ ~InPool(w)
      /\ \A b : b # c => ~Holds(b, w)
      /\ \A b, j : ~Watches(b, j, w)
  BY <1>1, HeldAlone
<1>3. /\ DOMAIN t = ResFields /\ t.callers = res.callers /\ t.workers = [res.workers EXCEPT ![w] = u] /\ t.pool = res.pool
      /\ t.current = res.current /\ t.assoc = res.assoc
  BY <1>1 DEF Command, SelectTypes, ResFields
<1>4. z \in WorkerSet
  BY <1>2, WorkerTypes
<1>5. u \in WorkerSet /\ u.pc = z.pc /\ u.cmd = "stop"
  BY <1>4 DEF WorkerSet
<1>6. u.command = TRUE /\ u.ready = FALSE
  BY <1>4 DEF WorkerSet
<1>7. z.pc = "waiting"
  BY <1>2 DEF WorkerOk, ReadyRests
<1> HIDE DEF u
<1>8. t.callers[c].pc = x.pc /\ res' = [t EXCEPT !.callers[c] = y]
  BY <1>3
<1>9. p \in EndPcs /\ (p = "discarded" <=> x.pc = "discard") /\ (p = "emptied" <=> x.pc = "empty")
  BY DEF EndPcs
<1> HIDE DEF p
<1>10. DOMAIN y = CallerFields /\ y.pc = p /\ y.data = x.data /\ y.using = w /\ y.k = x.k /\ y.call = x.call
  BY <1>1 DEF IsCaller, CallerFields
<1> HIDE DEF y
<1>11. IsCaller(y)
  BY <1>1, <1>10 DEF IsCaller
<1>12. /\ res'.callers = [res.callers EXCEPT ![c] = y] /\ res'.workers = [res.workers EXCEPT ![w] = u] /\ res'.pool = res.pool
       /\ res'.current = res.current /\ res'.assoc = res.assoc /\ DOMAIN res' = ResFields
  <2> HIDE DEF y
  <2>1. res'.callers = [t.callers EXCEPT ![c] = y] /\ res'.workers = t.workers /\ res'.pool = t.pool
    BY <1>3, <1>8 DEF ResFields
  <2>2. res'.current = t.current /\ res'.assoc = t.assoc /\ DOMAIN res' = DOMAIN t
    BY <1>3, <1>8 DEF ResFields
  <2> QED BY <1>3, <2>1, <2>2
<1>13. /\ res'.workers \in Seq(WorkerSet) /\ DOMAIN res'.workers = DOMAIN res.workers
       /\ res'.workers[w] = u /\ \A v \in DOMAIN res.workers : v # w => res'.workers[v] = res.workers[v]
  <2> DEFINE f == [res.workers EXCEPT ![w] = u]
  <2>1. res.workers \in Seq(WorkerSet)
    BY <1>1 DEF SelectTypes
  <2>2. f \in Seq(WorkerSet) /\ DOMAIN f = DOMAIN res.workers /\ f[w] = u
        /\ \A v \in DOMAIN res.workers : v # w => f[v] = res.workers[v]
    BY <1>2, <1>5, <2>1
  <2>3. res'.workers = f
    BY <1>12
  <2> HIDE DEF f
  <2> QED BY <2>2, <2>3
<1>14. SelectTypes' /\ res'.callers[c] = y /\ \A b \in Callers : b # c => res'.callers[b] = res.callers[b]
  <2>1. res.pool \in Seq(Nat) /\ Len(res.pool) <= THREAD_WORKERS_MAX /\ res.current \in Int
    BY <1>1 DEF SelectTypes
  <2> QED BY <1>11, <1>12, <1>13, <2>1, SetCallerTypes
<1>15. Callers' = Callers
  BY DEF Callers
<1>16. \A j, v : Watches(c, j, v)' <=> Watches(c, j, v)
  BY <1>10, <1>14, <1>15 DEF Watches
<1>17. Holds(c, w)' /\ \A v : v # w => ~Holds(c, v) /\ ~Holds(c, v)'
  BY <1>9, <1>10, <1>14, <1>15 DEF Holds, HoldPcs, EndPcs
<1>18. \A v : InPool(v)' <=> InPool(v)
  BY <1>12 DEF InPool
<1>19. \A b, j : ~Watches(b, j, w)'
  <2>1. \A b, j : b # c => (Watches(b, j, w)' <=> Watches(b, j, w))
    BY <1>14, <1>15 DEF Watches
  <2> QED BY <1>2, <1>16, <2>1
<1>20. \A b : Holds(b, w)' => b = c
  <2>1. \A b : b # c => (Holds(b, w)' <=> Holds(b, w))
    BY <1>14, <1>15 DEF Holds
  <2> QED BY <1>2, <2>1
<1>21. WorkerOk(w)'
  <2>1. ReadyRests(u) /\ Ending(u)
    BY <1>5, <1>6, <1>7 DEF ReadyRests, Ending
  <2>2. HeldAt(w)'
    <3>1. res'.callers[c].pc \in EndPcs /\ res'.callers[c].pc # "ready"
      BY <1>9, <1>10, <1>14 DEF EndPcs
    <3> QED BY <1>13, <1>20, <2>1, <3>1 DEF HeldAt
  <2>3. WatchedAt(w)'
    BY <1>19 DEF WatchedAt
  <2> QED BY <1>2, <1>13, <1>18, <2>1, <2>2, <2>3 DEF WorkerOk
<1>22. Phase(y)
  BY <1>1, <1>9, <1>10, SMTT(20), ZenonT(20) DEF Phase, CleanPcs, NoneWatched, EndPcs
<1>23. OnePlace' /\ Placed' /\ WorkersAt' /\ CallPhases'
  <2>1. DOMAIN res'.workers = DOMAIN res.workers \cup {w}
    BY <1>2, <1>13
  <2>2. \A j, v : Watches(c, j, v) => ~res'.callers[c].data[j].freed
    BY <1>10, <1>14, WatchedNotFreed DEF Watches
  <2>3. /\ \A v : v # w => (InPool(v)' <=> InPool(v)) /\ ~Holds(c, v) /\ ~Holds(c, v)'
        /\ \A j, v : v # w => (Watches(c, j, v)' <=> Watches(c, j, v))
    BY <1>16, <1>17, <1>18
  <2>4. /\ \A b : b # c => ~Holds(b, w) /\ \A j : ~Watches(b, j, w)
        /\ \A j : ~Watches(c, j, w)'
        /\ ~(Holds(c, w)' /\ InPool(w)')
    BY <1>2, <1>18, <1>19
  <2>5. /\ \A b \in Callers : b # c => res'.callers[b] = res.callers[b]
        /\ \A v \in DOMAIN res.workers : v # w => res'.workers[v] = res.workers[v]
        /\ Phase(res'.callers[c])
    BY <1>13, <1>14, <1>22
  <2>6. PlacesKept(c, w)
    BY <1>17, <1>21, <2>1, <2>2, <2>3, <2>4, <2>5 DEF PlacesKept
  <2> QED BY <2>6, PlacesStay
<1>24. PoolOnce'
  BY <1>12, SMTT(20), ZenonT(20) DEF SelectInv, PoolOnce
<1>25. Busy' = Busy
  <2>1. \A b, v : Readies(b, v)' <=> Readies(b, v)
    <3>1. \A b, v : b # c => (Readies(b, v)' <=> Readies(b, v))
      BY <1>14, <1>15 DEF Readies
    <3>2. \A v : ~Readies(c, v) /\ ~Readies(c, v)'
      BY <1>9, <1>10, <1>14 DEF Readies, EndPcs
    <3> QED BY <3>1, <3>2
  <2>2. \A b, j, v : Watches(b, j, v)' <=> Watches(b, j, v)
    <3>1. \A b, j, v : b # c => (Watches(b, j, v)' <=> Watches(b, j, v))
      BY <1>14, <1>15 DEF Watches
    <3> QED BY <1>16, <3>1
  <2> QED BY <1>13, <2>1, <2>2 DEF Busy
<1>26. (Cleaning' <=> Cleaning) /\ AtEnd'
  <2>1. /\ res'.callers[c].pc \in CleanPcs <=> res.callers[c].pc \in CleanPcs
        /\ res'.callers[c].pc # "exit" /\ res'.callers[c].call = res.callers[c].call
    BY <1>9, <1>10, <1>14 DEF CleanPcs, EndPcs
  <2> QED BY <1>1, <1>14, <2>1, EndKept
<1>27. CountExact'
  BY <1>12, <1>25, <1>26 DEF SelectInv, CountExact
<1> QED BY <1>14, <1>23, <1>24, <1>26, <1>27 DEF SelectInv

\* SubmitRaises: the worker stays in the hand of the caller, at rest.
LEMMA LostStepAt ==
  ASSUME SelectInv, UNCHANGED job, NEW c \in Callers, NEW x, x = res.callers[c], x.pc = "ready",
         NEW w, w = x.using, NEW z, z = res.workers[w], NEW u, u = z \/ u = [z EXCEPT !.ready = FALSE],
         res' = [res EXCEPT !.callers[c].pc = "lost", !.workers[w] = u]
  PROVE  SelectInv'
<1> DEFINE y == [x EXCEPT !.pc = "lost"]
<1>1. IsCaller(x) /\ Phase(x) /\ SelectTypes /\ ~Ended(c) /\ x.pc \notin CleanPcs /\ Holds(c, w) /\ Readies(c, w)
  BY CallerTypes DEF Ended, Returned, Interrupted, Holds, Readies, HoldPcs, CleanPcs
<1>2. /\ w \in DOMAIN res.workers /\ WorkerOk(w) /\ ~InPool(w)
      /\ \A b : b # c => ~Holds(b, w)
      /\ \A b, j : ~Watches(b, j, w)
  BY <1>1, HeldAlone
<1>3. ~Cleaning
  BY <1>1, NotCleaning
<1>4. z \in WorkerSet
  BY <1>2, WorkerTypes
<1>5. u \in WorkerSet /\ Resting(u) /\ ReadyRests(u)
  <2>1. Resting(z) /\ ReadyRests(z)
    BY <1>1, <1>2 DEF WorkerOk, HeldAt, EndPcs
  <2>2. CASE u = z
    BY <1>4, <2>1, <2>2
  <2>3. CASE u = [z EXCEPT !.ready = FALSE]
    <3>1. u \in WorkerSet /\ u.pc = z.pc /\ u.command = z.command
      BY <1>4, <2>3 DEF WorkerSet
    <3>2. u.ready = FALSE
      BY <1>4, <2>3 DEF WorkerSet
    <3> QED BY <2>1, <3>1, <3>2 DEF Resting, ReadyRests
  <2> QED BY <2>2, <2>3
<1>10. DOMAIN y = CallerFields /\ y.pc = "lost" /\ y.data = x.data /\ y.using = w /\ y.k = x.k
  BY <1>1 DEF IsCaller, CallerFields
<1>12. /\ res'.callers = [res.callers EXCEPT ![c] = y] /\ res'.workers = [res.workers EXCEPT ![w] = u] /\ res'.pool = res.pool
       /\ res'.current = res.current /\ res'.assoc = res.assoc /\ DOMAIN res' = ResFields
  BY <1>1 DEF SelectTypes, ResFields
<1> HIDE DEF y
<1>11. IsCaller(y)
  BY <1>1, <1>10 DEF IsCaller
<1>13. /\ res'.workers \in Seq(WorkerSet) /\ DOMAIN res'.workers = DOMAIN res.workers
       /\ res'.workers[w] = u /\ \A v \in DOMAIN res.workers : v # w => res'.workers[v] = res.workers[v]
  <2> DEFINE f == [res.workers EXCEPT ![w] = u]
  <2>1. res.workers \in Seq(WorkerSet)
    BY <1>1 DEF SelectTypes
  <2>2. f \in Seq(WorkerSet) /\ DOMAIN f = DOMAIN res.workers /\ f[w] = u
        /\ \A v \in DOMAIN res.workers : v # w => f[v] = res.workers[v]
    BY <1>2, <1>5, <2>1
  <2>3. res'.workers = f
    BY <1>12
  <2> HIDE DEF f
  <2> QED BY <2>2, <2>3
<1>14. SelectTypes' /\ res'.callers[c] = y /\ \A b \in Callers : b # c => res'.callers[b] = res.callers[b]
  <2>1. res.pool \in Seq(Nat) /\ Len(res.pool) <= THREAD_WORKERS_MAX /\ res.current \in Int
    BY <1>1 DEF SelectTypes
  <2> QED BY <1>11, <1>12, <1>13, <2>1, SetCallerTypes
<1>15. Callers' = Callers
  BY DEF Callers
<1>16. \A j, v : Watches(c, j, v)' <=> Watches(c, j, v)
  BY <1>10, <1>14, <1>15 DEF Watches
<1>17. Holds(c, w)' /\ \A v : v # w => ~Holds(c, v) /\ ~Holds(c, v)'
  BY <1>10, <1>14, <1>15 DEF Holds, HoldPcs
<1>18. \A v : InPool(v)' <=> InPool(v)
  BY <1>12 DEF InPool
<1>19. \A b, j : ~Watches(b, j, w)'
  <2>1. \A b, j : b # c => (Watches(b, j, w)' <=> Watches(b, j, w))
    BY <1>14, <1>15 DEF Watches
  <2> QED BY <1>2, <1>16, <2>1
<1>20. \A b : Holds(b, w)' => b = c
  <2>1. \A b : b # c => (Holds(b, w)' <=> Holds(b, w))
    BY <1>14, <1>15 DEF Holds
  <2> QED BY <1>2, <2>1
<1>21. WorkerOk(w)'
  <2>1. HeldAt(w)'
    <3>1. res'.callers[c].pc \notin EndPcs /\ res'.callers[c].pc # "ready"
      BY <1>10, <1>14 DEF EndPcs
    <3> QED BY <1>5, <1>13, <1>20, <3>1 DEF HeldAt
  <2>2. WatchedAt(w)'
    BY <1>19 DEF WatchedAt
  <2> QED BY <1>2, <1>5, <1>13, <1>18, <2>1, <2>2 DEF WorkerOk
<1>22. Phase(y)
  BY <1>10 DEF Phase, CleanPcs
<1>23. OnePlace' /\ Placed' /\ WorkersAt' /\ CallPhases'
  <2>1. DOMAIN res'.workers = DOMAIN res.workers \cup {w}
    BY <1>2, <1>13
  <2>2. \A j, v : Watches(c, j, v) => ~res'.callers[c].data[j].freed
    BY <1>10, <1>14, WatchedNotFreed DEF Watches
  <2>3. /\ \A v : v # w => (InPool(v)' <=> InPool(v)) /\ ~Holds(c, v) /\ ~Holds(c, v)'
        /\ \A j, v : v # w => (Watches(c, j, v)' <=> Watches(c, j, v))
    BY <1>16, <1>17, <1>18
  <2>4. /\ \A b : b # c => ~Holds(b, w) /\ \A j : ~Watches(b, j, w)
        /\ \A j : ~Watches(c, j, w)'
        /\ ~(Holds(c, w)' /\ InPool(w)')
    BY <1>2, <1>18, <1>19
  <2>5. /\ \A b \in Callers : b # c => res'.callers[b] = res.callers[b]
        /\ \A v \in DOMAIN res.workers : v # w => res'.workers[v] = res.workers[v]
        /\ Phase(res'.callers[c])
    BY <1>13, <1>14, <1>22
  <2>6. PlacesKept(c, w)
    BY <1>17, <1>21, <2>1, <2>2, <2>3, <2>4, <2>5 DEF PlacesKept
  <2> QED BY <2>6, PlacesStay
<1>24. PoolOnce'
  BY <1>12, SMTT(20), ZenonT(20) DEF SelectInv, PoolOnce
<1>25. Busy' = Busy
  <2>1. \A b, v : Readies(b, v)' <=> Readies(b, v)
    <3>1. \A b, v : b # c => (Readies(b, v)' <=> Readies(b, v))
      BY <1>14, <1>15 DEF Readies
    <3>2. \A v : Readies(c, v)' <=> Readies(c, v)
      BY <1>10, <1>14, <1>15 DEF Readies
    <3> QED BY <3>1, <3>2
  <2>2. \A b, j, v : Watches(b, j, v)' <=> Watches(b, j, v)
    <3>1. \A b, j, v : b # c => (Watches(b, j, v)' <=> Watches(b, j, v))
      BY <1>14, <1>15 DEF Watches
    <3> QED BY <1>16, <3>1
  <2> QED BY <1>13, <2>1, <2>2 DEF Busy
<1>26. ~Cleaning' /\ AtEnd'
  <2>1. res'.callers[c].pc \notin CleanPcs
    BY <1>10, <1>14 DEF CleanPcs
  <2> QED BY <1>1, <1>3, <1>14, <2>1, NotEnding
<1>27. CountExact'
  BY <1>3, <1>12, <1>25, <1>26 DEF SelectInv, CountExact
<1> QED BY <1>14, <1>23, <1>24, <1>26, <1>27 DEF SelectInv

\* SubmitRaises keeps the invariant.
LEMMA LostStep ==
  ASSUME SelectInv, UNCHANGED job, NEW c \in Callers, SubmitRaises(c)
  PROVE  SelectInv'
<1>1. \E x, w, z : x = res.callers[c] /\ w = x.using /\ z = res.workers[w]
  OBVIOUS
<1>2. PICK x, w, z : x = res.callers[c] /\ w = x.using /\ z = res.workers[w]
  BY <1>1
<1>3. x.pc = "ready"
  BY <1>2 DEF SubmitRaises, Caller
<1>4. CASE res' = [res EXCEPT !.callers[c].pc = "lost"]
  <2>1. SelectTypes /\ Holds(c, w)
    BY <1>2, <1>3 DEF SelectInv, Holds, HoldPcs
  <2>2. w \in DOMAIN res.workers
    BY <2>1, HeldAlone
  <2>3. [res.workers EXCEPT ![w] = z] = res.workers
    BY <1>2, <2>1, <2>2 DEF SelectTypes
  <2>4. res' = [res EXCEPT !.callers[c].pc = "lost", !.workers[w] = z]
    BY <1>4, <2>1, <2>3 DEF SelectTypes, ResFields
  <2> QED BY <1>2, <1>3, <2>4, LostStepAt
<1>5. CASE res' = [res EXCEPT !.callers[c].pc = "lost", !.workers[w].ready = FALSE]
  <2>1. res' = [res EXCEPT !.callers[c].pc = "lost", !.workers[w] = [z EXCEPT !.ready = FALSE]]
    BY <1>2, <1>5
  <2> QED BY <1>2, <1>3, <2>1, LostStepAt
<1> QED BY <1>2, <1>4, <1>5 DEF SubmitRaises

\* worker_free: its thread has ended.
LEMMA WorkerEndedAt ==
  ASSUME SelectInv, UNCHANGED job, NEW c \in Callers, NEW x, x = res.callers[c], x.pc \in EndPcs,
         NEW w, w = x.using, WorkerAt(w, "exited"),
         res' = [res EXCEPT !.callers[c].pc = IF res.callers[c].pc = "discarded" THEN "free" ELSE "cleanup"]
  PROVE  SelectInv'
<1> DEFINE p == IF x.pc = "discarded" THEN "free" ELSE "cleanup"
           y == [x EXCEPT !.pc = p]
<1>1. IsCaller(x) /\ Phase(x) /\ SelectTypes /\ ~Ended(c) /\ Holds(c, w)
  BY CallerTypes DEF Ended, Returned, Interrupted, Holds, HoldPcs, EndPcs
<1>2. /\ w \in DOMAIN res.workers /\ WorkerOk(w) /\ ~InPool(w)
      /\ \A b : b # c => ~Holds(b, w)
      /\ \A b, j : ~Watches(b, j, w)
  BY <1>1, HeldAlone
<1>3. res' = [res EXCEPT !.callers[c] = y]
  OBVIOUS
<1>4. p \in {"free", "cleanup"} /\ (p = "free" => x.pc = "discarded") /\ (p = "cleanup" => x.pc = "emptied")
  BY DEF EndPcs
<1> HIDE DEF p
<1>5. DOMAIN y = CallerFields /\ y.pc = p /\ y.data = x.data /\ y.using = w /\ y.k = x.k /\ y.call = x.call
  BY <1>1 DEF IsCaller, CallerFields
<1> HIDE DEF y
<1>6. IsCaller(y)
  BY <1>1, <1>5 DEF IsCaller
<1>7. /\ res'.callers = [res.callers EXCEPT ![c] = y] /\ res'.workers = res.workers /\ res'.pool = res.pool
      /\ res'.current = res.current /\ res'.assoc = res.assoc /\ DOMAIN res' = ResFields
  BY <1>1, <1>3 DEF SelectTypes, ResFields
<1>8. SelectTypes' /\ res'.callers[c] = y /\ \A b \in Callers : b # c => res'.callers[b] = res.callers[b]
  <2>1. res.pool \in Seq(Nat) /\ Len(res.pool) <= THREAD_WORKERS_MAX /\ res.current \in Int /\ res.workers \in Seq(WorkerSet)
    BY <1>1 DEF SelectTypes
  <2> QED BY <1>6, <1>7, <2>1, SetCallerTypes
<1>9. Callers' = Callers
  BY DEF Callers
<1>10. \A j, v : Watches(c, j, v)' <=> Watches(c, j, v)
  BY <1>5, <1>8, <1>9 DEF Watches
<1>11. (\A v : ~Holds(c, v)') /\ \A v : v # w => ~Holds(c, v)
  BY <1>4, <1>5, <1>8, <1>9 DEF Holds, HoldPcs
<1>12. \A v : InPool(v)' <=> InPool(v)
  BY <1>7 DEF InPool
<1>13. \A b, j : ~Watches(b, j, w)'
  <2>1. \A b, j : b # c => (Watches(b, j, w)' <=> Watches(b, j, w))
    BY <1>8, <1>9 DEF Watches
  <2> QED BY <1>2, <1>10, <2>1
<1>14. \A b : ~Holds(b, w)'
  <2>1. \A b : b # c => (Holds(b, w)' <=> Holds(b, w))
    BY <1>8, <1>9 DEF Holds
  <2> QED BY <1>2, <1>11, <2>1
<1>15. WorkerOk(w)'
  <2>1. ReadyRests(res.workers[w])
    BY <1>2 DEF WorkerOk
  <2>2. HeldAt(w)' /\ WatchedAt(w)'
    BY <1>13, <1>14 DEF HeldAt, WatchedAt
  <2> QED BY <1>2, <1>7, <1>12, <2>1, <2>2 DEF WorkerOk
<1>16. Phase(y)
  <2>1. p = "cleanup" => NoneWatched(y)
    BY <1>1, <1>4, <1>5 DEF Phase, CleanPcs, NoneWatched
  <2>2. p = "free" => \A j \in DOMAIN y.data : j < y.k => y.data[j].worker = 0
    BY <1>1, <1>4, <1>5 DEF Phase
  <2> QED BY <1>4, <1>5, <2>1, <2>2 DEF Phase, CleanPcs
<1>17. OnePlace' /\ Placed' /\ WorkersAt' /\ CallPhases'
  <2>1. DOMAIN res'.workers = DOMAIN res.workers \cup {w} /\ \A v \in DOMAIN res.workers : v # w => res'.workers[v] = res.workers[v]
    BY <1>2, <1>7
  <2>2. \A j, v : Watches(c, j, v) => ~res'.callers[c].data[j].freed
    BY <1>5, <1>8, WatchedNotFreed DEF Watches
  <2>3. WorkerAt(w, "exited")'
    BY <1>7 DEF WorkerAt
  <2> QED BY <1>2, <1>8, <1>10, <1>11, <1>12, <1>13, <1>14, <1>15, <1>16, <2>1, <2>2, <2>3, PlaceStep
<1>18. PoolOnce'
  BY <1>7 DEF SelectInv, PoolOnce
<1>19. Busy' = Busy
  <2>1. \A b, v : Readies(b, v)' <=> Readies(b, v)
    <3>1. \A b, v : b # c => (Readies(b, v)' <=> Readies(b, v))
      BY <1>8, <1>9 DEF Readies
    <3>2. \A v : ~Readies(c, v) /\ ~Readies(c, v)'
      BY <1>4, <1>5, <1>8 DEF Readies, EndPcs
    <3> QED BY <3>1, <3>2
  <2>2. \A b, j, v : Watches(b, j, v)' <=> Watches(b, j, v)
    <3>1. \A b, j, v : b # c => (Watches(b, j, v)' <=> Watches(b, j, v))
      BY <1>8, <1>9 DEF Watches
    <3> QED BY <1>10, <3>1
  <2> QED BY <1>7, <2>1, <2>2 DEF Busy
<1>20. (Cleaning' <=> Cleaning) /\ AtEnd'
  <2>1. /\ res'.callers[c].pc \in CleanPcs <=> res.callers[c].pc \in CleanPcs
        /\ res'.callers[c].pc # "exit" /\ res'.callers[c].call = res.callers[c].call
    BY <1>4, <1>5, <1>8 DEF CleanPcs, EndPcs
  <2> QED BY <1>1, <1>8, <2>1, EndKept
<1>21. CountExact'
  BY <1>7, <1>19, <1>20 DEF SelectInv, CountExact
<1> QED BY <1>8, <1>17, <1>18, <1>20, <1>21 DEF SelectInv

\* worker_free keeps the invariant.
LEMMA FreeWorkerStep ==
  ASSUME SelectInv, UNCHANGED job, NEW c \in Callers, worker_free(c)
  PROVE  SelectInv'
<1>1. \E x, w, z, t : x = res.callers[c] /\ w = x.using /\ z = res.workers[w] /\ t = Command(res, w, "stop")
  OBVIOUS
<1>2. PICK x, w, z, t : x = res.callers[c] /\ w = x.using /\ z = res.workers[w] /\ t = Command(res, w, "stop")
  BY <1>1
<1>3. CASE /\ x.pc \in {"discard", "empty"} /\ z.ready
           /\ res' = [t EXCEPT !.callers[c].pc = IF t.callers[c].pc = "discard" THEN "discarded" ELSE "emptied"]
  BY <1>2, <1>3, StopWorkerAt
<1>4. CASE /\ x.pc \in EndPcs /\ WorkerAt(w, "exited")
           /\ res' = [res EXCEPT !.callers[c].pc = IF res.callers[c].pc = "discarded" THEN "free" ELSE "cleanup"]
  BY <1>2, <1>4, WorkerEndedAt
<1> QED BY <1>2, <1>3, <1>4 DEF worker_free, EndPcs

\* worker_cleanup begins when every caller has made its calls.
LEMMA CleanupBegins ==
  ASSUME SelectInv, UNCHANGED job, Caller(0, "program"),
         \A c \in DOMAIN job.queries : Ended(c) /\ (Returned(c) => res.callers[c].call = SelectCalls),
         res' = [res EXCEPT !.callers[0].pc = "cleanup"]
  PROVE  SelectInv'
<1>0. SelectTypes /\ IsJob /\ 0 \in Callers /\ Callers' = Callers
  BY OneCalls DEF SelectInv, SelectTypes, Callers
<1>1. PICK x : x = res.callers[0]
  OBVIOUS
<1> DEFINE y == [x EXCEPT !.pc = "cleanup"]
<1>2. IsCaller(x) /\ Phase(x) /\ x.pc = "program" /\ x.pc \notin HoldPcs /\ x.pc \notin CleanPcs
  BY <1>0, <1>1, CallerTypes DEF Caller, HoldPcs, CleanPcs
<1>3. DOMAIN y = CallerFields /\ y.pc = "cleanup" /\ y.data = x.data /\ y.using = x.using /\ y.k = x.k /\ y.call = x.call
  BY <1>2 DEF IsCaller, CallerFields
<1>4. res' = [res EXCEPT !.callers[0] = y]
  BY <1>1
<1> HIDE DEF y
<1>5. IsCaller(y) /\ NoneWatched(x) /\ NoneWatched(y)
  BY <1>2, <1>3 DEF IsCaller, Phase, NoneWatched
<1>6. Phase(y)
  BY <1>3, <1>5 DEF Phase, CleanPcs
<1>7. /\ res'.callers = [res.callers EXCEPT ![0] = y] /\ res'.workers = res.workers /\ res'.pool = res.pool
      /\ res'.current = res.current /\ res'.assoc = res.assoc /\ DOMAIN res' = ResFields
  BY <1>0, <1>4 DEF SelectTypes, ResFields
<1>8. SelectTypes' /\ res'.callers[0] = y /\ \A b \in Callers : b # 0 => res'.callers[b] = res.callers[b]
  <2>1. res.pool \in Seq(Nat) /\ Len(res.pool) <= THREAD_WORKERS_MAX /\ res.current \in Int /\ res.workers \in Seq(WorkerSet)
    BY <1>0 DEF SelectTypes
  <2> QED BY <1>0, <1>5, <1>7, <2>1, SetCallerTypes
<1>9. OnePlace' /\ Placed' /\ PoolOnce' /\ WorkersAt' /\ CallPhases' /\ Busy' = Busy
  <2>1. \A k, w : ~Watches(0, k, w)' /\ ~Watches(0, k, w)
    BY <1>0, <1>1, <1>5, <1>8 DEF Watches, NoneWatched
  <2>2. res.callers[0].pc \notin HoldPcs /\ res'.callers[0].pc \notin HoldPcs
    BY <1>1, <1>2, <1>3, <1>8 DEF HoldPcs
  <2>3. DOMAIN res'.workers = DOMAIN res.workers /\ \A w \in DOMAIN res.workers : SameWorker(res.workers[w], res'.workers[w])
    BY <1>7 DEF SameWorker
  <2> QED BY <1>0, <1>6, <1>7, <1>8, <2>1, <2>2, <2>3, CallerPlaces
<1>10. ~Cleaning /\ Cleaning'
  BY <1>1, <1>2, <1>3, <1>8 DEF Cleaning, CleanPcs
<1>11. CountExact'
  <2>1. res.current = Cardinality(Busy) /\ Cardinality(Busy) \in Nat
    BY <1>0, <1>10, BusyFinite DEF SelectInv, CountExact
  <2>2. res'.current >= 0
    BY <1>7, <2>1
  <2> QED BY <1>10, <2>2 DEF CountExact
<1>12. AtEnd'
  <2>1. \A b \in Callers : b # 0 => Ended(b)' /\ (Returned(b)' => res'.callers[b].call = SelectCalls)
    <3> SUFFICES ASSUME NEW b \in Callers, b # 0 PROVE Ended(b)' /\ (Returned(b)' => res'.callers[b].call = SelectCalls)
      OBVIOUS
    <3>1. Ended(b) /\ (Returned(b) => res.callers[b].call = SelectCalls)
      BY DEF Callers
    <3> QED BY <1>8, <3>1 DEF Ended, Returned, Interrupted
  <2>2. \A b \in Callers : b # 0 => res'.callers[b].pc \notin CleanPcs
    BY <1>8 DEF SelectInv, AtEnd
  <2>3. ~Caller(0, "exit")'
    BY <1>3, <1>8 DEF Caller
  <2> QED BY <1>0, <2>1, <2>2, <2>3 DEF AtEnd
<1> QED BY <1>8, <1>9, <1>11, <1>12 DEF SelectInv

\* worker_cleanup ends when the pool is empty.
LEMMA CleanupEnds ==
  ASSUME SelectInv, UNCHANGED job, Caller(0, "cleanup"), res.pool = <<>>, res' = [res EXCEPT !.callers[0].pc = "exit"]
  PROVE  SelectInv'
<1>0. SelectTypes /\ IsJob /\ 0 \in Callers
  BY OneCalls DEF SelectInv, SelectTypes
<1>1. PICK x : x = res.callers[0]
  OBVIOUS
<1> DEFINE y == [x EXCEPT !.pc = "exit"]
<1>2. IsCaller(x) /\ Phase(x) /\ x.pc = "cleanup" /\ x.pc \notin HoldPcs /\ ~Ended(0)
  BY <1>0, <1>1, CallerTypes DEF Ended, Returned, Interrupted, HoldPcs, Caller
<1>3. DOMAIN y = CallerFields /\ y.pc = "exit" /\ y.data = x.data /\ y.using = x.using /\ y.k = x.k /\ y.call = x.call
  BY <1>2 DEF IsCaller, CallerFields
<1>4. res' = [res EXCEPT !.callers[0] = y]
  BY <1>1
<1> HIDE DEF y
<1>5. IsCaller(y) /\ NoneWatched(x) /\ NoneWatched(y)
  BY <1>2, <1>3 DEF IsCaller, Phase, NoneWatched, CleanPcs
<1>6. Phase(y)
  BY <1>3, <1>5 DEF Phase, CleanPcs
<1>7. /\ res'.callers = [res.callers EXCEPT ![0] = y] /\ res'.workers = res.workers /\ res'.pool = res.pool
      /\ res'.current = res.current /\ res'.assoc = res.assoc /\ DOMAIN res' = ResFields
  BY <1>0, <1>4 DEF SelectTypes, ResFields
<1>8. SelectTypes' /\ res'.callers[0] = y /\ \A b \in Callers : b # 0 => res'.callers[b] = res.callers[b]
  <2>1. res.pool \in Seq(Nat) /\ Len(res.pool) <= THREAD_WORKERS_MAX /\ res.current \in Int /\ res.workers \in Seq(WorkerSet)
    BY <1>0 DEF SelectTypes
  <2> QED BY <1>0, <1>5, <1>7, <2>1, SetCallerTypes
<1>9. OnePlace' /\ Placed' /\ PoolOnce' /\ WorkersAt' /\ CallPhases' /\ Busy' = Busy
  <2>1. \A k, w : ~Watches(0, k, w)' /\ ~Watches(0, k, w)
    BY <1>0, <1>1, <1>5, <1>8 DEF Watches, NoneWatched
  <2>2. res.callers[0].pc \notin HoldPcs /\ res'.callers[0].pc \notin HoldPcs
    BY <1>1, <1>2, <1>3, <1>8 DEF HoldPcs
  <2>3. DOMAIN res'.workers = DOMAIN res.workers /\ \A w \in DOMAIN res.workers : SameWorker(res.workers[w], res'.workers[w])
    BY <1>7 DEF SameWorker
  <2> QED BY <1>0, <1>6, <1>7, <1>8, <2>1, <2>2, <2>3, CallerPlaces
<1>10. (Cleaning' <=> Cleaning) /\ AtEnd'
  <2>1. /\ res'.callers[0].pc \in CleanPcs <=> res.callers[0].pc \in CleanPcs
        /\ res'.callers[0].call = res.callers[0].call /\ res'.pool = <<>>
    BY <1>1, <1>2, <1>3, <1>7, <1>8 DEF CleanPcs
  <2> QED BY <1>0, <1>2, <1>8, <2>1, EndKept
<1>11. CountExact'
  BY <1>7, <1>9, <1>10 DEF SelectInv, CountExact
<1> QED BY <1>8, <1>9, <1>10, <1>11 DEF SelectInv

\* worker_cleanup takes a worker from the pool.
LEMMA CleanupPops ==
  ASSUME SelectInv, UNCHANGED job, Caller(0, "cleanup"), res.pool # <<>>, NEW w, w = PoppedWorker(res), NEW t, t = worker_pop(res),
         res' = [t EXCEPT !.callers[0] = [t.callers[0] EXCEPT !.pc = "empty", !.using = w]]
  PROVE  SelectInv'
<1>0. SelectTypes /\ IsJob /\ 0 \in Callers
  BY OneCalls DEF SelectInv, SelectTypes
<1>1. PICK x : x = res.callers[0]
  OBVIOUS
<1> DEFINE y == [x EXCEPT !.pc = "empty", !.using = w]
<1>2. IsCaller(x) /\ Phase(x) /\ x.pc = "cleanup" /\ x.pc \notin HoldPcs /\ ~Ended(0)
  BY <1>0, <1>1, CallerTypes DEF Ended, Returned, Interrupted, HoldPcs, Caller
<1>3. Popped(t, w)
  BY PopPooled
<1>4. DOMAIN y = CallerFields /\ y.pc = "empty" /\ y.data = x.data /\ y.using = w /\ y.k = x.k /\ y.call = x.call
  BY <1>2 DEF IsCaller, CallerFields
<1>5. t.callers = res.callers /\ DOMAIN t = ResFields /\ t.current = res.current + 1 /\ t.assoc = res.assoc
  BY <1>3 DEF Popped
<1>6. res' = [t EXCEPT !.callers[0] = y]
  BY <1>1, <1>5
<1> HIDE DEF y
<1>7. /\ res'.callers = [res.callers EXCEPT ![0] = y] /\ res'.workers = t.workers /\ res'.pool = t.pool
      /\ res'.current = res.current + 1 /\ res'.assoc = res.assoc /\ DOMAIN res' = ResFields
  BY <1>5, <1>6 DEF ResFields
<1>8. Phase(y)
  <2>1. NoneWatched(y)
    BY <1>2, <1>4 DEF Phase, CleanPcs, NoneWatched
  <2> QED BY <1>4, <2>1 DEF Phase, CleanPcs
<1>9. /\ SelectTypes' /\ OnePlace' /\ Placed' /\ PoolOnce' /\ WorkersAt' /\ CallPhases'
      /\ res'.callers[0] = y /\ \A b \in Callers : b # 0 => res'.callers[b] = res.callers[b]
  BY <1>0, <1>1, <1>2, <1>3, <1>4, <1>7, <1>8, TakeStep
<1>10. (Cleaning' <=> Cleaning) /\ AtEnd' /\ Cleaning
  <2>1. /\ res'.callers[0].pc \in CleanPcs <=> res.callers[0].pc \in CleanPcs
        /\ res'.callers[0].call = res.callers[0].call /\ res'.callers[0].pc # "exit"
    BY <1>1, <1>2, <1>4, <1>9 DEF CleanPcs
  <2>2. Cleaning
    BY <1>1, <1>2 DEF Cleaning, CleanPcs
  <2> QED BY <1>0, <1>2, <1>9, <2>1, <2>2, EndKept
<1>11. CountExact'
  <2>1. res.current >= 0 /\ res.current \in Int
    BY <1>0, <1>10 DEF SelectInv, CountExact, SelectTypes
  <2>2. res'.current >= 0
    BY <1>7, <2>1
  <2> QED BY <1>10, <2>2 DEF CountExact
<1> QED BY <1>9, <1>10, <1>11 DEF SelectInv

\* worker_cleanup keeps the invariant.
LEMMA CleanupStep ==
  ASSUME SelectInv, UNCHANGED job, worker_cleanup
  PROVE  SelectInv'
<1>1. \E w, t : w = PoppedWorker(res) /\ t = worker_pop(res)
  OBVIOUS
<1>2. CASE /\ Caller(0, "program")
           /\ \A c \in DOMAIN job.queries : Ended(c) /\ (Returned(c) => res.callers[c].call = SelectCalls)
           /\ res' = [res EXCEPT !.callers[0].pc = "cleanup"]
  BY <1>2, CleanupBegins
<1>3. CASE Caller(0, "cleanup") /\ res.pool = <<>> /\ res' = [res EXCEPT !.callers[0].pc = "exit"]
  BY <1>3, CleanupEnds
<1>4. CASE /\ Caller(0, "cleanup") /\ res.pool # <<>>
           /\ res' = [worker_pop(res) EXCEPT !.callers[0] = [worker_pop(res).callers[0] EXCEPT !.pc = "empty", !.using = PoppedWorker(res)]]
  <2>1. PICK w, t : w = PoppedWorker(res) /\ t = worker_pop(res)
    BY <1>1
  <2>2. res' = [t EXCEPT !.callers[0] = [t.callers[0] EXCEPT !.pc = "empty", !.using = w]]
    BY <1>4, <2>1
  <2> QED BY <1>4, <2>1, <2>2, CleanupPops
<1>5. CASE worker_free(0)
  <2>1. 0 \in Callers
    BY DEF Callers
  <2> QED BY <1>5, <2>1, FreeWorkerStep
<1> QED BY <1>2, <1>3, <1>4, <1>5 DEF worker_cleanup

\* No worker exists at the start.
LEMMA SelectStarts ==
  ASSUME SelectInit
  PROVE  SelectInv
<1>1. IsJob
  BY DEF SelectInit, IsJob
<1>2. 0 \in Callers
  BY <1>1, OneCalls
<1>3. /\ DOMAIN res = ResFields /\ DOMAIN res.callers = Callers /\ res.workers = <<>> /\ res.pool = <<>> /\ res.current = 0
      /\ res.assoc = [fd \in SocketFds |-> <<>>]
  BY DEF SelectInit, ResFields, Callers, SocketFds
<1>4. \A c \in Callers : /\ res.callers[c].pc = (IF c = 0 THEN "program" ELSE "begin") /\ res.callers[c].data = <<>> /\ res.callers[c].k = 1 /\ res.callers[c].using = 0
                         /\ DOMAIN res.callers[c] = CallerFields
  BY DEF SelectInit, CallerFields, Callers
<1>5. DOMAIN <<>> = {} /\ DOMAIN <<>> = 1 .. 0 /\ Len(<<>>) = 0 /\ <<>> \in Seq(WorkerSet) /\ <<>> \in Seq(Nat)
  OBVIOUS
<1>6. \A c \in Callers : IsCaller(res.callers[c])
  BY <1>4, <1>5 DEF IsCaller, IsDataList
<1>7. SelectTypes
  <2>1. 0 <= THREAD_WORKERS_MAX /\ 0 \in Int
    BY SelectAssumption
  <2>2. DOMAIN res.assoc = SocketFds /\ \A fd \in SocketFds : res.assoc[fd] = <<>>
    BY <1>3
  <2> QED BY <1>1, <1>3, <1>5, <1>6, <2>1, <2>2 DEF SelectTypes
<1>8. (\A c, k, w : ~Watches(c, k, w)) /\ (\A c, w : ~Holds(c, w) /\ ~Readies(c, w)) /\ (\A w : ~InPool(w))
  <2>1. \A c, k, w : ~Watches(c, k, w)
    BY <1>4, <1>5 DEF Watches
  <2>2. \A c, w : ~Holds(c, w) /\ ~Readies(c, w)
    BY <1>4 DEF Holds, Readies, HoldPcs
  <2>3. \A w : ~InPool(w)
    BY <1>3, <1>5 DEF InPool
  <2> QED BY <2>1, <2>2, <2>3
<1>9. OnePlace
  BY <1>8 DEF OnePlace
<1>10. Placed /\ PoolOnce /\ WorkersAt
  BY <1>3, <1>5, <1>8 DEF Placed, PoolOnce, WorkersAt
<1>11. CallPhases
  BY <1>4, <1>5 DEF CallPhases, Phase, NoneWatched, CleanPcs
<1>12. ~Cleaning
  BY <1>2, <1>4 DEF Cleaning, CleanPcs
<1>13. CountExact
  <2>1. Busy = {}
    BY <1>3, <1>5 DEF Busy
  <2>2. Cardinality(Busy) = 0
    BY <2>1, FS_EmptySet
  <2> QED BY <1>3, <1>12, <2>2 DEF CountExact
<1>14. AtEnd
  BY <1>3, <1>4, <1>12 DEF AtEnd, CleanPcs
<1> QED BY <1>7, <1>9, <1>10, <1>11, <1>13, <1>14 DEF SelectInv

\* Every step of callers, workers and the outside keeps the invariant.
LEMMA SelectGoesOn ==
  ASSUME SelectInv, [SelectNext]_vars
  PROVE  SelectInv'
<1>1. CASE UNCHANGED vars
  <2>1. DOMAIN res' = ResFields
    BY <1>1 DEF vars, SelectInv, SelectTypes
  <2> QED BY <1>1, <2>1, IdleStep DEF vars
<1>2. CASE SelectNext
  <2>1. UNCHANGED job
    BY <1>2 DEF SelectNext
  <2>2. ASSUME NEW c \in DOMAIN job.queries, SelectStep(c) PROVE SelectInv'
    <3>0. c \in Callers
      BY DEF Callers
    <3>1. CASE Begin(c) \/ Submit(c) \/ worker_job_submit(c) \/ Sleep(c) \/ WaitOne(c) \/ worker_job_stop(c)
      BY <2>1, <3>0, <3>1, BeginStep, SubmitStep, JobStep, SleepStep, WaitOneStep, StopStep
    <3>2. CASE WaitAll(c) \/ Build(c) \/ select_data_free(c) \/ Return(c) \/ worker_free(c) \/ Again(c) \/ Arrives(c)
      BY <2>1, <3>0, <3>2, WaitAllStep, BuildStep, FreeStep, ReturnStep, FreeWorkerStep, AgainStep, ArrivesStep
    <3>3. CASE SubmitRaises(c) \/ CallRaises(c)
      BY <2>1, <3>0, <3>3, LostStep, BrokenStep
    <3> QED BY <2>2, <3>1, <3>2, <3>3 DEF SelectStep
  <2>3. ASSUME NEW w \in DOMAIN res.workers, worker_wait(w) PROVE SelectInv'
    BY <2>1, <2>3, WorkerSteps
  <2>4. CASE worker_cleanup
    BY <2>1, <2>4, CleanupStep
  <2> QED BY <1>2, <2>2, <2>3, <2>4 DEF SelectNext
<1> QED BY <1>1, <1>2

\* winworker.c, select.c: no worker of Unix.select looks at data that is freed or that another worker has,
\* the pool holds idle workers, each once, at most its limit; when no call is under way the workers in use are
\* those of the calls that an exception of a signal handler has ended, and no other is left after worker_cleanup:
\* for every number of callers, calls, descriptors and queries, and every limit of the pool.
THEOREM WorkersStayOwned == SelectSpec => []WorkersOwned
<1>1. SelectInit => SelectInv
  BY SelectStarts
<1>2. SelectInv /\ [SelectNext]_vars => SelectInv'
  BY SelectGoesOn
<1>3. SelectInv => WorkersOwned
  BY InvOwned
<1> QED BY <1>1, <1>2, <1>3, PTL DEF SelectSpec
===============================================================================
