---------------------------- MODULE ChannelsProofs ----------------------------
(***************************************************************************)
(* Proofs about the channels, for any threads, channels, sizes of buffers, *)
(* lengths of strings and numbers of signals: no channel is left locked or *)
(* entered twice, and the buffers tell the truth about the files.          *)
(***************************************************************************)
EXTENDS Channels, SequenceTheorems, TLAPS

OutOps == {"output", "output_char", "flush", "seek_out"}
InOps == {"input", "input_char", "scan_line", "seek_in"}
Places == {"idle", "lock", "lockwait", "locked", "enter", "sys", "leave", "done", "raise"}
Calls == {"write", "read", "lseek"}

ChanType == [fd : {"open", "closed", "unused"}, offset : Int, buff : Seq(Int), curr : Nat,
             given : SUBSET Int]
OpType == [op : OutOps \cup InOps \cup {"none"}, at : Places, c : Chans \cup {none}, left : Int,
           call : Calls \cup {"none"}, n : Int, new : Int, data : Seq(Int), ret : Int]

\* A buffer never overflows.
Sized(ch) == ch \in ChanType /\ Len(ch.buff) <= IO_BUFFER_SIZE

\* The arguments of a system call that is under way lie within the buffer, even when the
\* channel has been closed meanwhile.
CallOK(ch, o) ==
  /\ o.call \in Calls
  /\ o.call = "write" => /\ o.op \in OutOps /\ o.new \in Nat
                         /\ o.n \in 1 .. IO_BUFFER_SIZE /\ o.n <= Len(ch.buff) + o.new
                         /\ ch.fd = "open" => Len(ch.buff) + o.new <= IO_BUFFER_SIZE
  /\ o.call = "read" => /\ o.op \in {"input", "input_char", "scan_line"}
                        /\ o.new \in 0 .. Len(ch.buff) /\ o.n = IO_BUFFER_SIZE - o.new
  /\ o.call = "lseek" => o.op \in {"seek_in", "seek_out"}

\* While the channel is open, the call is the one that its operation needs.
OpenCall(ch, o) ==
  /\ o.call = "read" => IF o.op = "scan_line" THEN o.new = Len(ch.buff) /\ ch.curr = 0
                        ELSE o.new = 0
  /\ o.call = "lseek" /\ o.op = "seek_out" => ch.buff = <<>>

\* The buffer of an output channel, W being the positions written, and of an input channel.
OutWindow(ch, W) ==
  /\ ch.buff = Positions(ch.offset, Len(ch.buff))
  /\ ch.given \subseteq W \cup ToSet(ch.buff)
InWindow(ch) ==
  /\ ch.buff = Positions(ch.offset - Len(ch.buff), Len(ch.buff))
  /\ ch.curr \in 0 .. Len(ch.buff)

\* Where the kernel is, as seen from the operation of the owner of the mutex.
KernelAt(ch, o, k, W) ==
  IF o.at # "leave" THEN k = ch.offset
  ELSE /\ o.ret <= 0 /\ o.call # "lseek" => k = ch.offset
       /\ o.ret > 0 => k = ch.offset + o.ret /\ o.call # "lseek"
       /\ o.ret > 0 /\ o.call = "write" => ch.offset + 1 .. k \subseteq W
       /\ o.call = "lseek" => k = IF o.ret = 0 THEN o.left ELSE ch.offset

\* What the code between two blocking sections leaves of the channel and of the operation.
Outcome(r, ch, o) ==
  /\ Sized(r.ch) /\ r.ch.fd = ch.fd
  /\ r.o \in OpType /\ r.o.c = o.c /\ r.o.op = o.op
  /\ r.o.op = "input" => r.o.left = o.left
  /\ r.o.at \in {"done", "raise", "enter"}
  /\ r.o.at = "enter" => CallOK(r.ch, r.o)
  /\ r.o.at = "raise" => r.ch = ch

Window(ch, op, W) == IF op \in OutOps THEN OutWindow(ch, W) ELSE InWindow(ch)

\* The same while the channel is open and not torn.
OpenOutcome(r, off, op, W) ==
  /\ Window(r.ch, op, W) /\ r.ch.offset = off
  /\ r.o.at = "enter" => OpenCall(r.ch, r.o)

\* A step of the operation that transfers nothing.
Keeps(r, ch, o) ==
  /\ Outcome(r, ch, o) /\ r.ch.offset = ch.offset /\ r.o.at # "raise"
  /\ \A W : Window(ch, o.op, W) => OpenOutcome(r, ch.offset, o.op, W)

Ready(ch, o) ==
  /\ Sized(ch) /\ o \in OpType /\ o.op \in OutOps \cup InOps
  /\ o.op = "input" => o.left \in Nat

CallPlaces == {"enter", "sys", "leave"}

\* The state of one thread, and of the channel it uses.
ThreadInv(t) ==
  LET o == thr[t]
      ch == chan[o.c]
  IN /\ o \in OpType /\ o.at \notin {"done", "raise"}
     /\ last_channel_locked[t] \in Chans \cup {none}
     /\ last_channel_locked[t] # none => Inside(t, last_channel_locked[t])
     /\ o.at = "idle" <=> o.c = none
     /\ o.at # "idle" => /\ o.op \in IF o.c \in OutChans THEN OutOps ELSE InOps
                         /\ o.op = "input" => o.left \in Nat
     /\ o.at \in {"lock", "lockwait", "locked"} => o.ret = 0 /\ o.call = "none"
     /\ o.at \in CallPlaces => CallOK(ch, o)
     /\ o.at = "sys" /\ o.call = "write" => Len(o.data) <= o.n
     /\ o.at = "leave" => /\ o.ret \in Int
                          /\ o.call = "write" => o.ret <= o.n
                          /\ o.call = "read" => o.ret <= o.n
                          /\ o.ret < 0 => o.ret \in {EINTR, EAGAIN, EIO}
                          /\ o.ret = EAGAIN => o.call = "write"
                          /\ o.call = "write" => o.ret # 0
                          /\ o.call = "lseek" => o.ret \in {0, EIO}

TypeInv ==
  /\ chan \in [Chans -> ChanType]
  /\ \A c \in Chans : Sized(chan[c])
  /\ DOMAIN file = OutChans
  /\ kpos \in [Chans -> Int]
  /\ mutex \in [Chans -> Threads \cup {none}]
  /\ last_channel_locked \in [Threads -> Chans \cup {none}]
  /\ thr \in [Threads -> OpType]
  /\ sigs \in [n : Nat, pending : BOOLEAN]
  /\ torn \subseteq Chans

LockInv == TypeInv /\ LocksReleased /\ \A t \in Threads : ThreadInv(t)

\* An open channel that is not torn.
Wrote(c) == IF c \in OutChans THEN DOMAIN file[c] ELSE {}
OpenInv(c) ==
  LET ch == chan[c]
      W == Wrote(c)
  IN /\ IF c \in OutChans THEN OutWindow(ch, W) ELSE InWindow(ch)
     /\ mutex[c] = none => kpos[c] = ch.offset
     /\ \A t \in Threads : Inside(t, c) =>
          /\ KernelAt(ch, thr[t], kpos[c], W)
          /\ thr[t].at \in CallPlaces => OpenCall(ch, thr[t])
          /\ thr[t].at = "sys" /\ thr[t].call = "write" =>
               thr[t].data = Positions(ch.offset, thr[t].n)

-----------------------------------------------------------------------------
(* Sequences of consecutive positions.                                      *)

LEMMA PositionsSeq ==
  ASSUME NEW from \in Int, NEW n \in Nat
  PROVE  /\ Positions(from, n) \in Seq(Int)
         /\ Len(Positions(from, n)) = n
         /\ \A i \in 1 .. n : Positions(from, n)[i] = from + i
         /\ ToSet(Positions(from, n)) = from + 1 .. from + n
<1>1. Positions(from, n) \in [1 .. n -> Int]
  BY DEF Positions
<1>2. Positions(from, n) \in Seq(Int)
  BY <1>1, SeqDef
<1>3. Len(Positions(from, n)) = n
  BY <1>1, <1>2, LenProperties
<1>4. \A i \in 1 .. n : Positions(from, n)[i] = from + i
  BY DEF Positions
<1>5. ToSet(Positions(from, n)) = from + 1 .. from + n
  <2>1. ToSet(Positions(from, n)) = {Positions(from, n)[i] : i \in 1 .. n}
    BY <1>1 DEF ToSet
  <2>2. ASSUME NEW j \in from + 1 .. from + n
        PROVE  j \in ToSet(Positions(from, n))
    <3>1. j - from \in 1 .. n /\ Positions(from, n)[j - from] = j
      BY <1>4
    <3> QED BY <3>1, <2>1
  <2>3. ASSUME NEW j \in ToSet(Positions(from, n))
        PROVE  j \in from + 1 .. from + n
    BY <2>1, <1>4
  <2> QED BY <2>2, <2>3
<1> QED BY <1>2, <1>3, <1>4, <1>5

LEMMA PositionsConcat ==
  ASSUME NEW from \in Int, NEW m \in Nat, NEW n \in Nat
  PROVE  Positions(from, m) \o Positions(from + m, n) = Positions(from, m + n)
<1> DEFINE a == Positions(from, m)
           b == Positions(from + m, n)
           u == Positions(from, m + n)
<1>1. a \in Seq(Int) /\ Len(a) = m /\ \A i \in 1 .. m : a[i] = from + i
  BY PositionsSeq
<1>2. b \in Seq(Int) /\ Len(b) = n /\ \A i \in 1 .. n : b[i] = from + m + i
  BY PositionsSeq
<1>3. u \in Seq(Int) /\ Len(u) = m + n /\ \A i \in 1 .. m + n : u[i] = from + i
  BY PositionsSeq
<1> HIDE DEF a, b, u
<1>4. /\ a \o b \in Seq(Int) /\ Len(a \o b) = m + n
      /\ \A i \in 1 .. m + n : (a \o b)[i] = IF i <= m THEN a[i] ELSE b[i - m]
  BY <1>1, <1>2, ConcatProperties
<1>5. ASSUME NEW i \in 1 .. m + n
      PROVE  (a \o b)[i] = u[i]
  <2>1. u[i] = from + i /\ (a \o b)[i] = IF i <= m THEN a[i] ELSE b[i - m]
    BY <1>3, <1>4
  <2>2. CASE i <= m
    BY <2>1, <2>2, <1>1
  <2>3. CASE ~(i <= m)
    <3>1. i - m \in 1 .. n
      BY <2>3
    <3>2. b[i - m] = from + m + (i - m)
      BY <3>1, <1>2
    <3> QED BY <2>1, <2>3, <3>2
  <2> QED BY <2>2, <2>3
<1>6. a \o b = u
  BY <1>3, <1>4, <1>5, SeqEqual
<1> QED BY <1>6 DEF a, b, u

LEMMA PositionsSub ==
  ASSUME NEW from \in Int, NEW n \in Nat, NEW j \in 1 .. n + 1, NEW k \in j - 1 .. n
  PROVE  SubSeq(Positions(from, n), j, k) = Positions(from + (j - 1), k - j + 1)
<1> DEFINE a == Positions(from, n)
           s == SubSeq(a, j, k)
           u == Positions(from + (j - 1), k - j + 1)
<1>1. a \in Seq(Int) /\ Len(a) = n /\ \A i \in 1 .. n : a[i] = from + i
  BY PositionsSeq
<1>2. u \in Seq(Int) /\ Len(u) = k - j + 1 /\ \A i \in 1 .. k - j + 1 : u[i] = from + (j - 1) + i
  <2>1. from + (j - 1) \in Int /\ k - j + 1 \in Nat
    OBVIOUS
  <2> QED BY <2>1, PositionsSeq
<1> HIDE DEF a, u
<1>3. \A i \in j .. k : a[i] \in Int
  BY <1>1
<1>4. /\ s \in Seq(Int) /\ Len(s) = k - j + 1
      /\ \A i \in 1 .. k - j + 1 : s[i] = a[j + i - 1]
  BY <1>3, SubSeqProperties
<1> HIDE DEF s
<1>5. \A i \in 1 .. k - j + 1 : s[i] = u[i]
  BY <1>1, <1>2, <1>4
<1>6. s = u
  BY <1>2, <1>4, <1>5, SeqEqual
<1> QED BY <1>6 DEF a, s, u
-----------------------------------------------------------------------------
(* The operations between two blocking sections.                            *)

LEMMA BufferSize == IO_BUFFER_SIZE \in Nat /\ IO_BUFFER_SIZE >= 1
BY ChannelSizes

LEMMA OpUpdate ==
  ASSUME NEW o \in OpType
  PROVE  /\ \A x \in Places : [o EXCEPT !.at = x] \in OpType
         /\ \A x \in Calls : [o EXCEPT !.call = x] \in OpType
         /\ \A x \in Int : [o EXCEPT !.left = x] \in OpType
         /\ \A x \in Int : [o EXCEPT !.n = x] \in OpType
         /\ \A x \in Int : [o EXCEPT !.new = x] \in OpType
         /\ \A x \in Int : [o EXCEPT !.ret = x] \in OpType
         /\ \A x \in Seq(Int) : [o EXCEPT !.data = x] \in OpType
<1>1. \A x \in Places : [o EXCEPT !.at = x] \in OpType
  BY DEF OpType
<1>2. \A x \in Calls : [o EXCEPT !.call = x] \in OpType
  BY DEF OpType
<1>3. \A x \in Int : [o EXCEPT !.left = x] \in OpType
  BY DEF OpType
<1>4. \A x \in Int : [o EXCEPT !.n = x] \in OpType
  BY DEF OpType
<1>5. \A x \in Int : [o EXCEPT !.new = x] \in OpType
  BY DEF OpType
<1>6. \A x \in Int : [o EXCEPT !.ret = x] \in OpType
  BY DEF OpType
<1>7. \A x \in Seq(Int) : [o EXCEPT !.data = x] \in OpType
  BY DEF OpType
<1> QED BY <1>1, <1>2, <1>3, <1>4, <1>5, <1>6, <1>7

LEMMA StopFacts ==
  ASSUME NEW ch, NEW o \in OpType, NEW at \in {"done", "raise"} \cup Calls
  PROVE  LET r == Stop(ch, o, at)
         IN /\ r.ch = ch
            /\ r.o \in OpType
            /\ r.o.op = o.op /\ r.o.c = o.c /\ r.o.left = o.left /\ r.o.n = o.n /\ r.o.new = o.new
            /\ at \in {"done", "raise"} => r.o.at = at
            /\ at \in Calls => r.o.at = "enter" /\ r.o.call = at
<1>1. CASE at \in {"done", "raise"}
  BY <1>1 DEF Stop, OpType, Places, Calls
<1>2. CASE at \in Calls
  <2>1. at \notin {"done", "raise"}
    BY <1>2 DEF Calls
  <2>2. Stop(ch, o, at) = [ch |-> ch, o |-> [o EXCEPT !.at = "enter", !.call = at, !.ret = 0]]
    BY <2>1 DEF Stop
  <2> DEFINE o1 == [o EXCEPT !.at = "enter"]
             o2 == [o1 EXCEPT !.call = at]
             o3 == [o2 EXCEPT !.ret = 0]
  <2>3. o3 \in OpType
    <3>1. o1 \in OpType
      BY OpUpdate DEF Places
    <3> HIDE DEF o1
    <3>2. o2 \in OpType
      BY <3>1, <1>2, OpUpdate
    <3> HIDE DEF o2
    <3> QED BY <3>2, OpUpdate
  <2>4. [o EXCEPT !.at = "enter", !.call = at, !.ret = 0] = o3
    OBVIOUS
  <2>5. /\ o3.op = o.op /\ o3.c = o.c /\ o3.left = o.left /\ o3.n = o.n /\ o3.new = o.new
        /\ o3.at = "enter" /\ o3.call = at
    BY DEF OpType
  <2>6. Stop(ch, o, at) = [ch |-> ch, o |-> o3]
    BY <2>2, <2>4
  <2> HIDE DEF o3
  <2> QED BY <2>1, <2>3, <2>5, <2>6
<1> QED BY <1>1, <1>2

LEMMA StopEnds ==
  ASSUME NEW ch0, NEW ch, NEW o0, NEW o \in OpType, NEW at \in {"done", "raise"},
         Sized(ch), ch.fd = ch0.fd, o.c = o0.c, o.op = o0.op, o.op = "input" => o.left = o0.left,
         at = "raise" => ch = ch0
  PROVE  /\ Outcome(Stop(ch, o, at), ch0, o0)
         /\ Stop(ch, o, at).ch = ch /\ Stop(ch, o, at).o.at = at
BY StopFacts DEF Outcome, Calls

LEMMA AddBytesFacts ==
  ASSUME NEW ch \in ChanType, NEW n \in Nat
  PROVE  LET ad == AddBytes(ch, n)
         IN /\ ad \in ChanType /\ Len(ad.buff) = Len(ch.buff) + n
            /\ ad.fd = ch.fd /\ ad.offset = ch.offset
            /\ \A W : OutWindow(ch, W) => OutWindow(ad, W)
<1> DEFINE p == Positions(pos_out(ch), n)
           ad == AddBytes(ch, n)
<1>1. ch.offset \in Int /\ ch.buff \in Seq(Int) /\ Len(ch.buff) \in Nat
  BY DEF ChanType
<1>2. pos_out(ch) = ch.offset + Len(ch.buff) /\ pos_out(ch) \in Int
  BY <1>1 DEF pos_out
<1>3. p \in Seq(Int) /\ Len(p) = n /\ ToSet(p) = pos_out(ch) + 1 .. pos_out(ch) + n
  BY <1>2, PositionsSeq
<1>4. ad = [ch EXCEPT !.buff = ch.buff \o p, !.given = ch.given \cup ToSet(p)]
  BY DEF AddBytes, ChanType
<1> HIDE DEF p, ad
<1>5. ch.buff \o p \in Seq(Int) /\ Len(ch.buff \o p) = Len(ch.buff) + n
  BY <1>1, <1>3, ConcatProperties
<1>6. ToSet(p) \subseteq Int
  BY <1>3, <1>2
<1>7. /\ ad \in ChanType /\ ad.fd = ch.fd /\ ad.offset = ch.offset
      /\ ad.buff = ch.buff \o p /\ ad.given = ch.given \cup ToSet(p)
  BY <1>4, <1>5, <1>6 DEF ChanType
<1>8. ASSUME NEW W, OutWindow(ch, W)
      PROVE  OutWindow(ad, W)
  <2>1. ch.buff = Positions(ch.offset, Len(ch.buff)) /\ ch.given \subseteq W \cup ToSet(ch.buff)
    BY <1>8 DEF OutWindow
  <2>2. ch.buff \o p = Positions(ch.offset, Len(ch.buff) + n)
    BY <2>1, <1>1, <1>2, PositionsConcat DEF p
  <2>3. ToSet(ch.buff) = ch.offset + 1 .. ch.offset + Len(ch.buff)
    BY <2>1, <1>1, PositionsSeq
  <2> DEFINE m == Len(ch.buff) + n
  <2>4. m \in Nat
    BY <1>1
  <2>5. ToSet(ad.buff) = ch.offset + 1 .. ch.offset + m
    <3> HIDE DEF m
    <3>1. ToSet(Positions(ch.offset, m)) = ch.offset + 1 .. ch.offset + m
      BY <2>4, <1>1, PositionsSeq
    <3> QED BY <2>2, <3>1, <1>7 DEF m
  <2>6. ToSet(ch.buff) \subseteq ToSet(ad.buff) /\ ToSet(p) \subseteq ToSet(ad.buff)
    BY <2>3, <2>5, <1>3, <1>2, <1>1
  <2> QED BY <2>1, <2>2, <2>6, <1>5, <1>7 DEF OutWindow
<1> QED BY <1>5, <1>7, <1>8 DEF ad

LEMMA RaiseOutcome ==
  ASSUME NEW ch, NEW o \in OpType, Sized(ch)
  PROVE  /\ Outcome(Stop(ch, o, "raise"), ch, o)
         /\ \A W : Window(ch, o.op, W) => OpenOutcome(Stop(ch, o, "raise"), ch.offset, o.op, W)
<1> DEFINE r == Stop(ch, o, "raise")
<1>1. Outcome(r, ch, o) /\ r.ch = ch /\ r.o.at = "raise"
  BY StopEnds
<1> HIDE DEF r
<1>2. Outcome(r, ch, o) /\ \A W : Window(ch, o.op, W) => OpenOutcome(r, ch.offset, o.op, W)
  BY <1>1 DEF OpenOutcome
<1> QED BY <1>2 DEF r

LEMMA StopKeeps ==
  ASSUME NEW ch0, NEW ch, NEW o \in OpType,
         Sized(ch), ch.fd = ch0.fd, ch.offset = ch0.offset,
         \A W : Window(ch0, o.op, W) => Window(ch, o.op, W)
  PROVE  Keeps(Stop(ch, o, "done"), ch0, o)
<1> DEFINE r == Stop(ch, o, "done")
<1>1. Outcome(r, ch0, o) /\ r.ch = ch /\ r.o.at = "done"
  BY StopEnds
<1> HIDE DEF r
<1>2. Keeps(r, ch0, o)
  BY <1>1 DEF Keeps, OpenOutcome
<1> QED BY <1>2 DEF r

LEMMA CallFacts ==
  ASSUME NEW ch, NEW o \in OpType, NEW at \in Calls
  PROVE  /\ Stop(ch, o, at).ch = ch
         /\ Stop(ch, o, at).o \in OpType
         /\ Stop(ch, o, at).o.op = o.op /\ Stop(ch, o, at).o.c = o.c
         /\ Stop(ch, o, at).o.left = o.left
         /\ Stop(ch, o, at).o.n = o.n /\ Stop(ch, o, at).o.new = o.new
         /\ Stop(ch, o, at).o.at = "enter" /\ Stop(ch, o, at).o.call = at
<1>1. at \in {"done", "raise"} \cup Calls
  OBVIOUS
<1> QED BY <1>1, StopFacts

LEMMA CallOutcome ==
  ASSUME NEW ch0, NEW ch, NEW o, NEW o1 \in OpType, NEW at \in Calls,
         Sized(ch), ch.fd = ch0.fd, o1.c = o.c, o1.op = o.op, o1.left = o.left,
         CallOK(ch, [op |-> o.op, call |-> at, n |-> o1.n, new |-> o1.new])
  PROVE  /\ Outcome(Stop(ch, o1, at), ch0, o) /\ Stop(ch, o1, at).ch = ch
         /\ Stop(ch, o1, at).o.at = "enter"
         /\ OpenCall(ch, [op |-> o.op, call |-> at, n |-> o1.n, new |-> o1.new])
              => \A W : Window(ch, o.op, W) => OpenOutcome(Stop(ch, o1, at), ch.offset, o.op, W)
<1> DEFINE r == Stop(ch, o1, at)
<1>1. /\ r.ch = ch /\ r.o \in OpType /\ r.o.op = o.op /\ r.o.c = o.c /\ r.o.left = o.left
      /\ r.o.n = o1.n /\ r.o.new = o1.new /\ r.o.at = "enter" /\ r.o.call = at
  BY CallFacts
<1> HIDE DEF r
<1>2. CallOK(r.ch, r.o)
  BY <1>1 DEF CallOK
<1>3. Outcome(r, ch0, o)
  BY <1>1, <1>2 DEF Outcome
<1>4. ASSUME NEW W, Window(ch, o.op, W),
             OpenCall(ch, [op |-> o.op, call |-> at, n |-> o1.n, new |-> o1.new])
      PROVE  OpenOutcome(r, ch.offset, o.op, W)
  <2>1. OpenCall(r.ch, r.o)
    BY <1>1, <1>4 DEF OpenCall
  <2> QED BY <1>1, <1>4, <2>1 DEF OpenOutcome
<1> QED BY <1>1, <1>3, <1>4 DEF r

LEMMA CallKeeps ==
  ASSUME NEW ch0, NEW ch, NEW o, NEW o1 \in OpType, NEW at \in Calls,
         Sized(ch), ch.fd = ch0.fd, ch.offset = ch0.offset,
         o1.c = o.c, o1.op = o.op, o1.left = o.left,
         CallOK(ch, [op |-> o.op, call |-> at, n |-> o1.n, new |-> o1.new]),
         \A W : Window(ch0, o.op, W) => Window(ch, o.op, W),
         OpenCall(ch, [op |-> o.op, call |-> at, n |-> o1.n, new |-> o1.new])
  PROVE  Keeps(Stop(ch, o1, at), ch0, o)
<1> DEFINE r == Stop(ch, o1, at)
<1>1. /\ Outcome(r, ch0, o) /\ r.ch = ch /\ r.o.at = "enter"
      /\ \A W : Window(ch, o.op, W) => OpenOutcome(r, ch.offset, o.op, W)
  <2>1. Outcome(r, ch0, o) /\ r.ch = ch /\ r.o.at = "enter"
    BY CallOutcome
  <2>2. \A W : Window(ch, o.op, W) => OpenOutcome(r, ch.offset, o.op, W)
    BY CallOutcome
  <2> QED BY <2>1, <2>2
<1> HIDE DEF r
<1>2. Keeps(r, ch0, o)
  BY <1>1 DEF Keeps
<1> QED BY <1>2 DEF r

LEMMA BuffLen ==
  ASSUME NEW ch, Sized(ch)
  PROVE  /\ ch \in ChanType /\ ch.buff \in Seq(Int) /\ Len(ch.buff) \in 0 .. IO_BUFFER_SIZE
         /\ ch.offset \in Int /\ ch.curr \in Nat
BY BufferSize DEF Sized, ChanType

LEMMA FlushPartial ==
  ASSUME NEW ch, NEW o, Ready(ch, o), o.op \in OutOps, Len(ch.buff) > 0
  PROVE  Keeps(caml_flush_partial(ch, o), ch, o)
<1> DEFINE o1 == [o EXCEPT !.n = Len(ch.buff)]
           o2 == [o1 EXCEPT !.new = 0]
<1>1. o \in OpType /\ Len(ch.buff) \in 1 .. IO_BUFFER_SIZE
  BY BuffLen DEF Ready
<1>2. o2 \in OpType
  <2>1. o1 \in OpType
    BY <1>1 DEF OpType
  <2> HIDE DEF o1
  <2> QED BY <2>1 DEF OpType
<1>3. o2.c = o.c /\ o2.op = o.op /\ o2.left = o.left /\ o2.n = Len(ch.buff) /\ o2.new = 0
  BY <1>1 DEF OpType
<1>4. caml_flush_partial(ch, o) = Stop(ch, o2, "write")
  BY DEF caml_flush_partial
<1> HIDE DEF o2
<1>5. CallOK(ch, [op |-> o.op, call |-> "write", n |-> o2.n, new |-> o2.new])
  BY <1>1, <1>3, BufferSize DEF CallOK, Calls
<1>6. OpenCall(ch, [op |-> o.op, call |-> "write", n |-> o2.n, new |-> o2.new])
  BY DEF OpenCall
<1> QED BY <1>1, <1>2, <1>3, <1>4, <1>5, <1>6, CallKeeps DEF Ready, Calls

LEMMA AddKeeps ==
  ASSUME NEW ch, NEW o, NEW n \in Nat, Ready(ch, o), o.op \in OutOps,
         Len(ch.buff) + n <= IO_BUFFER_SIZE
  PROVE  Keeps(Stop(AddBytes(ch, n), o, "done"), ch, o)
<1>1. ch \in ChanType /\ o \in OpType
  BY DEF Ready, Sized
<1> DEFINE ad == AddBytes(ch, n)
<1>2. /\ ad \in ChanType /\ Len(ad.buff) = Len(ch.buff) + n
      /\ ad.fd = ch.fd /\ ad.offset = ch.offset
      /\ \A W : OutWindow(ch, W) => OutWindow(ad, W)
  BY <1>1, AddBytesFacts
<1> HIDE DEF ad
<1>3. Sized(ad) /\ \A W : Window(ch, o.op, W) => Window(ad, o.op, W)
  BY <1>2 DEF Sized, Window
<1>4. Keeps(Stop(ad, o, "done"), ch, o)
  BY <1>1, <1>2, <1>3, StopKeeps
<1> QED BY <1>4 DEF ad

LEMMA OutputKeeps ==
  ASSUME NEW ch, NEW o, Ready(ch, o), o.op \in OutOps
  PROVE  /\ o.left > 0 => Keeps(caml_putblock(ch, o), ch, o)
         /\ Keeps(putch(ch, o), ch, o)
         /\ o.op \in {"flush", "seek_out"} => Keeps(caml_flush(ch, o), ch, o)
<1>1. /\ o \in OpType /\ o.left \in Int /\ Sized(ch) /\ Len(ch.buff) \in 0 .. IO_BUFFER_SIZE
      /\ ch.buff \in Seq(Int)
  BY BuffLen DEF Ready, OpType
<1>2. ASSUME o.left > 0
      PROVE  Keeps(caml_putblock(ch, o), ch, o)
  <2> DEFINE free == IO_BUFFER_SIZE - Len(ch.buff)
             o1 == [o EXCEPT !.n = IO_BUFFER_SIZE]
             o2 == [o1 EXCEPT !.new = free]
  <2>1. free \in Nat
    BY <1>1, BufferSize
  <2>2. CASE o.left < free
    <3>1. caml_putblock(ch, o) = Stop(AddBytes(ch, o.left), o, "done")
      BY <2>2 DEF caml_putblock
    <3>2. o.left \in Nat /\ Len(ch.buff) + o.left <= IO_BUFFER_SIZE
      BY <1>1, <1>2, <2>2, BufferSize
    <3> QED BY <3>1, <3>2, AddKeeps
  <2>3. CASE ~(o.left < free)
    <3>1. caml_putblock(ch, o) = Stop(ch, o2, "write")
      BY <2>3 DEF caml_putblock
    <3>2. o2 \in OpType
      <4> HIDE DEF free
      <4>1. IO_BUFFER_SIZE \in Int /\ free \in Int
        BY <2>1, BufferSize
      <4>2. o1 \in OpType
        BY <1>1, <4>1, OpUpdate
      <4> HIDE DEF o1
      <4> QED BY <4>1, <4>2, OpUpdate
    <3>3. /\ o2.c = o.c /\ o2.op = o.op /\ o2.left = o.left /\ o2.n = IO_BUFFER_SIZE
          /\ o2.new = free
      BY <1>1 DEF OpType
    <3> HIDE DEF o2
    <3>4. CallOK(ch, [op |-> o.op, call |-> "write", n |-> o2.n, new |-> o2.new])
      BY <1>1, <2>1, <3>3, BufferSize DEF CallOK, Calls
    <3>5. OpenCall(ch, [op |-> o.op, call |-> "write", n |-> o2.n, new |-> o2.new])
      BY DEF OpenCall
    <3> QED BY <1>1, <3>1, <3>2, <3>3, <3>4, <3>5, CallKeeps DEF Calls
  <2> QED BY <2>2, <2>3
<1>3. Keeps(putch(ch, o), ch, o)
  <2>1. CASE Len(ch.buff) >= IO_BUFFER_SIZE
    <3>1. Len(ch.buff) > 0
      BY <1>1, <2>1, BufferSize
    <3> QED BY <2>1, <3>1, FlushPartial DEF putch
  <2>2. CASE ~(Len(ch.buff) >= IO_BUFFER_SIZE)
    <3>1. Len(ch.buff) + 1 <= IO_BUFFER_SIZE
      BY <1>1, <2>2, BufferSize
    <3>2. Keeps(Stop(AddBytes(ch, 1), o, "done"), ch, o)
      BY <3>1, AddKeeps
    <3> QED BY <2>2, <3>2 DEF putch
  <2> QED BY <2>1, <2>2
<1>4. ASSUME o.op \in {"flush", "seek_out"}
      PROVE  Keeps(caml_flush(ch, o), ch, o)
  <2>1. CASE Len(ch.buff) > 0
    BY <2>1, FlushPartial DEF caml_flush
  <2>2. CASE ~(Len(ch.buff) > 0) /\ o.op # "seek_out"
    <3>1. caml_flush(ch, o) = Stop(ch, o, "done")
      BY <2>2 DEF caml_flush
    <3> QED BY <3>1, <1>1, StopKeeps
  <2>3. CASE ~(Len(ch.buff) > 0) /\ o.op = "seek_out"
    <3>1. caml_flush(ch, o) = Stop(ch, o, "lseek")
      BY <2>3 DEF caml_flush
    <3>2. ch.buff = <<>>
      BY <1>1, <2>3, EmptySeq
    <3>3. CallOK(ch, [op |-> o.op, call |-> "lseek", n |-> o.n, new |-> o.new])
      BY <2>3 DEF CallOK, Calls
    <3>4. OpenCall(ch, [op |-> o.op, call |-> "lseek", n |-> o.n, new |-> o.new])
      BY <2>3, <3>2 DEF OpenCall
    <3> QED BY <1>1, <3>1, <3>3, <3>4, CallKeeps DEF Calls
  <2> QED BY <2>1, <2>2, <2>3
<1> QED BY <1>2, <1>3, <1>4

LEMMA ReadKeeps ==
  ASSUME NEW ch0, NEW ch, NEW o, NEW from \in Nat, Ready(ch, o), o.op \in InOps,
         ch.fd = ch0.fd, ch.offset = ch0.offset, from <= Len(ch.buff),
         \A W : Window(ch0, o.op, W) => Window(ch, o.op, W),
         IF o.op = "scan_line" THEN from = Len(ch.buff) /\ ch.curr = 0
         ELSE from = 0 /\ o.op \in {"input", "input_char"}
  PROVE  Keeps(Read(ch, o, from), ch0, o)
<1> DEFINE n == IO_BUFFER_SIZE - from
           o1 == [o EXCEPT !.n = n]
           o2 == [o1 EXCEPT !.new = from]
<1>1. o \in OpType /\ Sized(ch) /\ Len(ch.buff) \in 0 .. IO_BUFFER_SIZE
  BY BuffLen DEF Ready
<1>2. n \in Int /\ from \in Int
  BY BufferSize
<1>3. o2 \in OpType
  <2> HIDE DEF n
  <2>1. o1 \in OpType
    BY <1>1, <1>2, OpUpdate
  <2> HIDE DEF o1
  <2> QED BY <1>2, <2>1, OpUpdate
<1>4. o2.c = o.c /\ o2.op = o.op /\ o2.left = o.left /\ o2.n = n /\ o2.new = from
  BY <1>1 DEF OpType
<1>5. Read(ch, o, from) = Stop(ch, o2, "read")
  BY DEF Read
<1> HIDE DEF o2
<1>6. CallOK(ch, [op |-> o.op, call |-> "read", n |-> o2.n, new |-> o2.new])
  BY <1>1, <1>4, BufferSize DEF CallOK, Calls
<1>7. OpenCall(ch, [op |-> o.op, call |-> "read", n |-> o2.n, new |-> o2.new])
  BY <1>4 DEF OpenCall
<1> QED BY <1>1, <1>3, <1>4, <1>5, <1>6, <1>7, CallKeeps DEF Calls

\* Moving curr within the buffer.
LEMMA CurrKeeps ==
  ASSUME NEW ch, NEW o, NEW k \in Nat, Ready(ch, o), o.op \in InOps,
         InWindow(ch) => k \in 0 .. Len(ch.buff)
  PROVE  Keeps(Stop([ch EXCEPT !.curr = k], o, "done"), ch, o)
<1> DEFINE ch1 == [ch EXCEPT !.curr = k]
<1>1. o \in OpType /\ ch \in ChanType /\ Len(ch.buff) <= IO_BUFFER_SIZE
  BY DEF Ready, Sized
<1>2. /\ ch1 \in ChanType /\ ch1.fd = ch.fd /\ ch1.offset = ch.offset /\ ch1.buff = ch.buff
      /\ ch1.curr = k
  BY <1>1 DEF ChanType
<1> HIDE DEF ch1
<1>3. Sized(ch1)
  BY <1>1, <1>2 DEF Sized
<1>4. \A W : Window(ch, o.op, W) => Window(ch1, o.op, W)
  BY <1>2 DEF Window, InWindow, InOps, OutOps
<1>5. Keeps(Stop(ch1, o, "done"), ch, o)
  BY <1>1, <1>2, <1>3, <1>4, StopKeeps
<1> QED BY <1>5 DEF ch1

LEMMA TakeKeeps ==
  ASSUME NEW ch, NEW o, NEW n \in Nat, Ready(ch, o), o.op \in InOps,
         InWindow(ch) => ch.curr + n <= Len(ch.buff)
  PROVE  Keeps(Take(ch, o, n), ch, o)
<1> DEFINE k == ch.curr + n
<1>1. Len(ch.buff) \in 0 .. IO_BUFFER_SIZE /\ ch.curr \in Nat /\ ch \in ChanType
  BY BuffLen DEF Ready
<1>2. k \in Nat /\ (InWindow(ch) => k \in 0 .. Len(ch.buff))
  BY <1>1, BufferSize DEF InWindow
<1>3. Take(ch, o, n) = Stop([ch EXCEPT !.curr = k], o, "done")
  BY <1>1 DEF Take, ChanType
<1> HIDE DEF k
<1> QED BY <1>2, <1>3, CurrKeeps

LEMMA InputKeeps ==
  ASSUME NEW ch, NEW o, Ready(ch, o)
  PROVE  /\ o.op = "input" => Keeps(caml_getblock(ch, o), ch, o)
         /\ o.op = "input_char" => Keeps(getch(ch, o), ch, o)
         /\ o.op = "seek_in" => Keeps(caml_seek_in(ch, o), ch, o)
<1>1. /\ o \in OpType /\ o.left \in Int /\ Sized(ch) /\ Len(ch.buff) \in 0 .. IO_BUFFER_SIZE
      /\ ch.buff \in Seq(Int) /\ ch.curr \in Nat /\ ch.offset \in Int
  BY BuffLen DEF Ready, OpType
<1>2. ASSUME o.op = "input"
      PROVE  Keeps(caml_getblock(ch, o), ch, o)
  <2> DEFINE avail == Len(ch.buff) - ch.curr
  <2>1. o.op \in InOps /\ o.left \in Nat /\ avail \in Int
    BY <1>1, <1>2, BufferSize DEF Ready, InOps
  <2>2. CASE o.left <= avail
    <3>1. caml_getblock(ch, o) = Take(ch, o, o.left)
      BY <2>1, <2>2 DEF caml_getblock
    <3>2. ch.curr + o.left <= Len(ch.buff)
      BY <1>1, <2>1, <2>2, BufferSize
    <3> QED BY <2>1, <3>1, <3>2, TakeKeeps
  <2>3. CASE o.left > avail /\ avail > 0
    <3>1. caml_getblock(ch, o) = Take(ch, o, avail)
      BY <2>1, <2>3 DEF caml_getblock
    <3>2. avail \in Nat /\ ch.curr + avail <= Len(ch.buff)
      BY <1>1, <2>1, <2>3, BufferSize
    <3> HIDE DEF avail
    <3> QED BY <2>1, <3>1, <3>2, TakeKeeps
  <2>4. CASE ~(o.left <= avail) /\ ~(avail > 0)
    <3>1. caml_getblock(ch, o) = Read(ch, o, 0)
      BY <2>1, <2>4 DEF caml_getblock
    <3>2. Keeps(Read(ch, o, 0), ch, o)
      BY <1>1, <1>2, <2>1, ReadKeeps
    <3> QED BY <3>1, <3>2
  <2> QED BY <2>1, <2>2, <2>3, <2>4
<1>3. ASSUME o.op = "input_char"
      PROVE  Keeps(getch(ch, o), ch, o)
  <2>1. o.op \in InOps
    BY <1>3 DEF InOps
  <2>2. Keeps(Read(ch, o, 0), ch, o)
    BY <1>1, <1>3, <2>1, ReadKeeps
  <2>3. ~(ch.curr >= Len(ch.buff)) => Keeps(Take(ch, o, 1), ch, o)
    <3> SUFFICES ASSUME ~(ch.curr >= Len(ch.buff))
                 PROVE  Keeps(Take(ch, o, 1), ch, o)
      OBVIOUS
    <3>1. ch.curr + 1 <= Len(ch.buff)
      BY <1>1
    <3> QED BY <2>1, <3>1, TakeKeeps
  <2> QED BY <2>2, <2>3 DEF getch
<1>4. ASSUME o.op = "seek_in"
      PROVE  Keeps(caml_seek_in(ch, o), ch, o)
  <2>1. o.op \in InOps
    BY <1>4 DEF InOps
  <2>2. CASE o.left >= ch.offset - Len(ch.buff) /\ o.left <= ch.offset
    <3> DEFINE k == Len(ch.buff) - (ch.offset - o.left)
    <3>1. k \in 0 .. Len(ch.buff)
      BY <1>1, <2>2, BufferSize
    <3>2. caml_seek_in(ch, o) = Stop([ch EXCEPT !.curr = k], o, "done")
      BY <2>2 DEF caml_seek_in
    <3> HIDE DEF k
    <3>3. k \in Nat
      BY <3>1, <1>1
    <3> QED BY <2>1, <3>1, <3>2, <3>3, CurrKeeps
  <2>3. CASE ~(o.left >= ch.offset - Len(ch.buff) /\ o.left <= ch.offset)
    <3>1. caml_seek_in(ch, o) = Stop(ch, o, "lseek")
      BY <2>3 DEF caml_seek_in
    <3>2. CallOK(ch, [op |-> o.op, call |-> "lseek", n |-> o.n, new |-> o.new])
      BY <1>4 DEF CallOK, Calls
    <3>3. OpenCall(ch, [op |-> o.op, call |-> "lseek", n |-> o.n, new |-> o.new])
      BY <1>4 DEF OpenCall
    <3> QED BY <1>1, <3>1, <3>2, <3>3, CallKeeps DEF Calls
  <2> QED BY <2>2, <2>3
<1> QED BY <1>2, <1>3, <1>4

LEMMA ScanKeeps ==
  ASSUME NEW ch, NEW o, Ready(ch, o), o.op = "scan_line"
  PROVE  Keeps(caml_input_scan_line(ch, o), ch, o)
<1> DEFINE unread == SubSeq(ch.buff, ch.curr + 1, Len(ch.buff))
           nl == {i \in DOMAIN unread : unread[i] \in Newlines}
           shifted == [ch EXCEPT !.buff = unread, !.curr = 0]
<1>1. /\ o \in OpType /\ Sized(ch) /\ Len(ch.buff) \in 0 .. IO_BUFFER_SIZE /\ ch \in ChanType
      /\ ch.buff \in Seq(Int) /\ ch.curr \in Nat /\ ch.offset \in Int /\ o.op \in InOps
  BY BuffLen DEF Ready, InOps
<1>2. /\ unread \in Seq(Int)
      /\ Len(unread) = IF ch.curr + 1 <= Len(ch.buff) THEN Len(ch.buff) - ch.curr ELSE 0
  <2>1. \A i \in ch.curr + 1 .. Len(ch.buff) : ch.buff[i] \in Int
    BY <1>1, ElementOfSeq
  <2>2. /\ unread \in Seq(Int)
        /\ Len(unread) = IF ch.curr + 1 <= Len(ch.buff) THEN Len(ch.buff) - (ch.curr + 1) + 1 ELSE 0
    BY <1>1, <2>1, SubSeqProperties
  <2> HIDE DEF unread
  <2> QED BY <1>1, <2>2
<1>3. Len(unread) \in Nat /\ Len(unread) <= Len(ch.buff)
  <2> HIDE DEF unread
  <2> QED BY <1>1, <1>2
<1>4. ASSUME InWindow(ch)
      PROVE  /\ unread = Positions(ch.offset - Len(unread), Len(unread))
             /\ Len(unread) = Len(ch.buff) - ch.curr
  <2> DEFINE from == ch.offset - Len(ch.buff)
             l == Len(ch.buff)
             j == ch.curr + 1
  <2>1. ch.buff = Positions(from, l) /\ ch.curr \in 0 .. l
    BY <1>4 DEF InWindow
  <2>2. from \in Int /\ l \in Nat /\ j \in 1 .. l + 1 /\ l \in j - 1 .. l
    BY <1>1, <2>1
  <2>3. SubSeq(Positions(from, l), j, l) = Positions(from + (j - 1), l - j + 1)
    <3> HIDE DEF from, l, j
    <3> QED BY <2>2, PositionsSub
  <2>4. unread = Positions(from + (j - 1), l - j + 1)
    <3>1. unread = SubSeq(Positions(from, l), j, l)
      BY <2>1
    <3> QED BY <3>1, <2>3
  <2>5. Len(unread) = l - ch.curr
    <3> HIDE DEF unread
    <3> QED BY <1>1, <1>2, <2>2
  <2>6. from + (j - 1) = ch.offset - (l - ch.curr) /\ l - j + 1 = l - ch.curr
    <3>1. l \in Int /\ ch.curr \in Int /\ ch.offset \in Int
      BY <1>1, <2>2
    <3> HIDE DEF l
    <3> QED BY <3>1 DEF l
  <2> HIDE DEF unread
  <2> QED BY <2>4, <2>5, <2>6
<1>5. /\ shifted \in ChanType /\ shifted.fd = ch.fd /\ shifted.offset = ch.offset
      /\ shifted.buff = unread /\ shifted.curr = 0
  <2> HIDE DEF unread
  <2> QED BY <1>1, <1>2 DEF ChanType
<1>6. /\ caml_input_scan_line(ch, o) \in {Stop(ch, o, "done"), Stop(shifted, o, "done"),
                                          Read(shifted, o, Len(unread))}
  BY DEF caml_input_scan_line
<1> HIDE DEF unread, shifted
<1>7. Sized(shifted)
  BY <1>1, <1>3, <1>5, BufferSize DEF Sized
<1>8. \A W : Window(ch, o.op, W) => Window(shifted, o.op, W)
  <2>1. o.op \notin OutOps
    BY DEF OutOps
  <2>2. InWindow(ch) => InWindow(shifted)
    BY <1>3, <1>4, <1>5 DEF InWindow
  <2> QED BY <2>1, <2>2 DEF Window
<1>9. Keeps(Stop(ch, o, "done"), ch, o)
  BY <1>1, StopKeeps
<1>10. Keeps(Stop(shifted, o, "done"), ch, o)
  BY <1>1, <1>5, <1>7, <1>8, StopKeeps
<1>11. Keeps(Read(shifted, o, Len(unread)), ch, o)
  <2>1. Ready(shifted, o)
    BY <1>7 DEF Ready
  <2> QED BY <1>1, <1>3, <1>5, <1>7, <1>8, <2>1, ReadKeeps
<1> QED BY <1>6, <1>9, <1>10, <1>11

LEMMA RunKeeps ==
  ASSUME NEW ch, NEW o, Ready(ch, o)
  PROVE  Keeps(Run(ch, o), ch, o)
<1>1. o \in OpType /\ o.left \in Int /\ Sized(ch)
  BY DEF Ready, OpType
<1>2. CASE o.op = "output"
  <2>1. o.op \in OutOps
    BY <1>2 DEF OutOps
  <2>2. Keeps(Stop(ch, o, "done"), ch, o)
    BY <1>1, StopKeeps
  <2>3. o.left > 0 => Keeps(caml_putblock(ch, o), ch, o)
    BY <2>1, OutputKeeps
  <2>4. Run(ch, o) = IF o.left > 0 THEN caml_putblock(ch, o) ELSE Stop(ch, o, "done")
    BY <1>2 DEF Run
  <2> QED BY <2>2, <2>3, <2>4
<1>3. CASE o.op = "output_char"
  <2>1. o.op \in OutOps /\ Run(ch, o) = putch(ch, o)
    BY <1>3 DEF Run, OutOps
  <2> QED BY <2>1, OutputKeeps
<1>4. CASE o.op \in {"flush", "seek_out"}
  <2>1. o.op \in OutOps /\ Run(ch, o) = caml_flush(ch, o)
    BY <1>4 DEF Run, OutOps
  <2> QED BY <1>4, <2>1, OutputKeeps
<1>5. CASE o.op \in {"input", "input_char", "seek_in"}
  <2>1. /\ o.op = "input" => Run(ch, o) = caml_getblock(ch, o)
        /\ o.op = "input_char" => Run(ch, o) = getch(ch, o)
        /\ o.op = "seek_in" => Run(ch, o) = caml_seek_in(ch, o)
    BY DEF Run
  <2> QED BY <1>5, <2>1, InputKeeps
<1>6. CASE o.op = "scan_line"
  <2>1. Run(ch, o) = caml_input_scan_line(ch, o)
    BY <1>6 DEF Run
  <2> QED BY <1>6, <2>1, ScanKeeps
<1> QED BY <1>2, <1>3, <1>4, <1>5, <1>6 DEF Ready, OutOps, InOps

\* After a write of k bytes.
LEMMA WrittenOutcome ==
  ASSUME NEW ch, NEW o, NEW k, Ready(ch, o), CallOK(ch, o), o.call = "write", k \in 1 .. o.n
  PROVE  /\ Outcome(Written(ch, o, k), ch, o)
         /\ ch.fd = "open" => Written(ch, o, k).ch.offset = ch.offset + k
         /\ \A W : ch.fd = "open" /\ OutWindow(ch, W) /\ ch.offset + 1 .. ch.offset + k \subseteq W
                     => OpenOutcome(Written(ch, o, k), ch.offset + k, o.op, W)
<1> DEFINE full == IF ch.fd = "open" THEN AddBytes(ch, o.new) ELSE ch
           rest == SubSeq(full.buff, k + 1, Len(full.buff))
           c1 == [full EXCEPT !.offset = full.offset + k]
           c2 == [c1 EXCEPT !.buff = rest]
           o1 == [o EXCEPT !.left = o.left - o.new]
           o2 == [o1 EXCEPT !.new = 0]
<1>1. /\ o \in OpType /\ o.left \in Int /\ o.new \in Nat /\ o.op \in OutOps
      /\ k \in Nat /\ k >= 1 /\ k <= Len(ch.buff) + o.new
      /\ ch.fd = "open" => Len(ch.buff) + o.new <= IO_BUFFER_SIZE
  BY BuffLen, BufferSize DEF Ready, OpType, CallOK
<1>2. ch \in ChanType /\ Len(ch.buff) \in 0 .. IO_BUFFER_SIZE /\ ch.offset \in Int
  BY BuffLen DEF Ready
<1>3. /\ full \in ChanType /\ full.fd = ch.fd /\ full.offset = ch.offset
      /\ Len(full.buff) <= IO_BUFFER_SIZE /\ full.buff \in Seq(Int)
      /\ ch.fd = "open" => Len(full.buff) = Len(ch.buff) + o.new
      /\ ch.fd = "open" => \A W : OutWindow(ch, W) => OutWindow(full, W)
  <2>1. full \in ChanType /\ full.fd = ch.fd /\ full.offset = ch.offset
    BY <1>1, <1>2, AddBytesFacts
  <2>2. /\ ch.fd = "open" => Len(full.buff) = Len(ch.buff) + o.new
        /\ ch.fd = "open" => \A W : OutWindow(ch, W) => OutWindow(full, W)
    BY <1>1, <1>2, AddBytesFacts
  <2>3. Len(full.buff) <= IO_BUFFER_SIZE
    BY <1>1, <1>2, <2>2, BufferSize
  <2> HIDE DEF full
  <2>4. full.buff \in Seq(Int)
    BY <2>1 DEF ChanType
  <2> QED BY <2>1, <2>2, <2>3, <2>4
<1>4. Written(ch, o, k) = Run(c2, o2)
  BY DEF Written
<1> HIDE DEF full
<1>5. Len(full.buff) \in Nat
  BY <1>3
<1>6. /\ rest \in Seq(Int)
      /\ Len(rest) = IF k + 1 <= Len(full.buff) THEN Len(full.buff) - k ELSE 0
  <2>1. \A i \in k + 1 .. Len(full.buff) : full.buff[i] \in Int
    BY <1>1, <1>3, <1>5, ElementOfSeq
  <2>2. k + 1 \in Int /\ Len(full.buff) \in Int
    BY <1>1, <1>5
  <2>3. /\ rest \in Seq(Int)
        /\ Len(rest) = IF k + 1 <= Len(full.buff) THEN Len(full.buff) - (k + 1) + 1 ELSE 0
    BY <2>1, <2>2, SubSeqProperties
  <2> HIDE DEF rest
  <2> QED BY <2>3, <1>1, <1>5
<1>7. /\ c2 \in ChanType /\ c2.fd = ch.fd /\ c2.offset = ch.offset + k /\ c2.buff = rest
      /\ c2.given = full.given
  <2> HIDE DEF rest
  <2>1. full.offset + k \in Int
    BY <1>1, <1>2, <1>3
  <2>2. c1 \in ChanType /\ c1.fd = ch.fd /\ c1.offset = ch.offset + k /\ c1.given = full.given
    BY <1>3, <2>1 DEF ChanType
  <2> HIDE DEF c1
  <2> QED BY <2>2, <1>6 DEF ChanType
<1>8. o2 \in OpType /\ o2.op = o.op /\ o2.c = o.c /\ (o.op = "input" => o2.left = o.left)
  <2>1. o.left - o.new \in Int
    BY <1>1
  <2>2. o1 \in OpType
    BY <1>1, <2>1, OpUpdate
  <2>3. o1.op = o.op /\ o1.c = o.c
    BY <1>1 DEF OpType
  <2> HIDE DEF o1
  <2>4. o2 \in OpType
    BY <2>2, OpUpdate
  <2>5. o2.op = o.op /\ o2.c = o.c
    BY <2>2, <2>3 DEF OpType
  <2> QED BY <1>1, <2>4, <2>5 DEF OutOps
<1> DEFINE w == Written(ch, o, k)
<1> HIDE DEF c2, o2, rest
<1>9. Sized(c2) /\ Ready(c2, o2)
  <2>1. Len(c2.buff) <= IO_BUFFER_SIZE
    BY <1>1, <1>3, <1>5, <1>6, <1>7, BufferSize
  <2> QED BY <1>1, <1>7, <1>8, <2>1 DEF Sized, Ready, OutOps
<1>10. Keeps(w, c2, o2)
  BY <1>4, <1>9, RunKeeps
<1> HIDE DEF w
<1>11. Outcome(w, ch, o)
  BY <1>1, <1>7, <1>8, <1>10 DEF Keeps, Outcome, OutOps
<1>12. ASSUME NEW W, ch.fd = "open", OutWindow(ch, W), ch.offset + 1 .. ch.offset + k \subseteq W
       PROVE  OpenOutcome(w, ch.offset + k, o.op, W)
  <2> DEFINE l == Len(full.buff)
             j == k + 1
  <2>1. /\ full.buff = Positions(ch.offset, l) /\ full.given \subseteq W \cup ToSet(full.buff)
    BY <1>3, <1>12 DEF OutWindow
  <2>2. l \in Nat /\ k <= l
    BY <1>1, <1>3, <1>5, <1>12
  <2>3. j \in 1 .. l + 1 /\ l \in j - 1 .. l
    BY <1>1, <2>2
  <2>4. SubSeq(Positions(ch.offset, l), j, l) = Positions(ch.offset + (j - 1), l - j + 1)
    <3> HIDE DEF j, l
    <3> QED BY <1>2, <2>2, <2>3, PositionsSub
  <2>5. rest = Positions(ch.offset + k, l - k)
    <3>1. j - 1 = k /\ l - j + 1 = l - k
      BY <1>1, <2>2
    <3>2. rest = SubSeq(Positions(ch.offset, l), j, l)
      BY <2>1 DEF rest
    <3> HIDE DEF j, l
    <3> QED BY <3>1, <3>2, <2>4
  <2>6. l - k \in Nat /\ ch.offset + k \in Int
    BY <1>1, <1>2, <2>2
  <2>7. Len(rest) = l - k /\ ToSet(rest) = ch.offset + k + 1 .. ch.offset + k + (l - k)
    <3> HIDE DEF l
    <3>1. \A a \in Int, m \in Nat : Len(Positions(a, m)) = m /\ ToSet(Positions(a, m)) = a + 1 .. a + m
      BY PositionsSeq
    <3> QED BY <2>5, <2>6, <3>1
  <2>8. ToSet(full.buff) = ch.offset + 1 .. ch.offset + l
    <3> HIDE DEF l
    <3> QED BY <1>2, <2>1, <2>2, PositionsSeq
  <2>9. ToSet(full.buff) \subseteq W \cup ToSet(rest)
    <3> HIDE DEF l
    <3> QED BY <1>1, <1>2, <1>12, <2>2, <2>7, <2>8
  <2>10. OutWindow(c2, W)
    BY <1>7, <2>1, <2>5, <2>7, <2>9 DEF OutWindow
  <2>11. Window(c2, o2.op, W)
    BY <1>1, <1>8, <2>10 DEF Window
  <2> QED BY <1>7, <1>8, <1>10, <2>11 DEF Keeps
<1>13. ch.fd = "open" => w.ch.offset = ch.offset + k
  BY <1>7, <1>10 DEF Keeps
<1> QED BY <1>11, <1>12, <1>13 DEF w

\* After a read of the k bytes that follow position p.
LEMMA FilledOutcome ==
  ASSUME NEW ch, NEW o, NEW k, NEW p \in Int,
         Ready(ch, o), CallOK(ch, o), o.call = "read", k \in 0 .. o.n
  PROVE  LET r == Filled(ch, o, Positions(p, k))
         IN /\ Outcome(r, ch, o)
            /\ \A W : InWindow(ch) /\ OpenCall(ch, o) /\ p = ch.offset
                        => OpenOutcome(r, ch.offset + k, o.op, W)
<1> DEFINE bs == Positions(p, k)
           start == SubSeq(ch.buff, 1, o.new)
           buff == start \o bs
           c0 == [ch EXCEPT !.offset = ch.offset + Len(bs)]
           c1 == [c0 EXCEPT !.buff = buff]
           c2 == [c1 EXCEPT !.curr = 0]
           r == Filled(ch, o, bs)
<1>1. /\ o \in OpType /\ o.left \in Int /\ k \in Nat /\ o.new \in 0 .. Len(ch.buff)
      /\ o.new + k <= IO_BUFFER_SIZE /\ o.op \in {"input", "input_char", "scan_line"}
  BY BuffLen, BufferSize DEF Ready, OpType, CallOK
<1>2. /\ ch \in ChanType /\ Len(ch.buff) \in Nat /\ Len(ch.buff) \in 0 .. IO_BUFFER_SIZE
      /\ ch.offset \in Int /\ ch.buff \in Seq(Int) /\ ch.curr \in Nat /\ o.new \in Nat /\ Sized(ch)
  BY <1>1, BuffLen DEF Ready
<1>3. bs \in Seq(Int) /\ Len(bs) = k
  BY <1>1, PositionsSeq
<1>4. start \in Seq(Int) /\ Len(start) = o.new
  <2>1. \A i \in 1 .. o.new : ch.buff[i] \in Int
    BY <1>1, <1>2, ElementOfSeq
  <2>2. 1 \in Int /\ o.new \in Int
    BY <1>2
  <2>3. start \in Seq(Int) /\ Len(start) = IF 1 <= o.new THEN o.new - 1 + 1 ELSE 0
    BY <2>1, <2>2, SubSeqProperties
  <2> HIDE DEF start
  <2> QED BY <2>3, <1>2
<1>5. buff \in Seq(Int) /\ Len(buff) = o.new + k
  <2> HIDE DEF start, bs
  <2>1. start \o bs \in Seq(Int) /\ Len(start \o bs) = Len(start) + Len(bs)
    BY <1>3, <1>4, ConcatProperties
  <2> QED BY <1>3, <1>4, <2>1
<1>6. /\ c1 \in ChanType /\ c1.fd = ch.fd /\ c1.offset = ch.offset + k /\ c1.buff = buff
      /\ c1.curr = ch.curr
  <2>1. ch.offset + Len(bs) \in Int /\ ch.offset + Len(bs) = ch.offset + k
    <3> HIDE DEF bs
    <3> QED BY <1>1, <1>2, <1>3
  <2> HIDE DEF bs, buff
  <2>2. c0 \in ChanType /\ c0.fd = ch.fd /\ c0.offset = ch.offset + k /\ c0.curr = ch.curr
    BY <1>2, <2>1 DEF ChanType
  <2> HIDE DEF c0
  <2> QED BY <2>2, <1>5 DEF ChanType
<1>7. r = CASE o.op = "input" -> Take(c2, o, IF o.left > k THEN k ELSE o.left)
            [] o.op = "input_char" /\ k > 0 -> Take(c2, o, 1)
            [] o.op = "input_char" /\ k = 0 -> Stop(ch, o, "raise")
            [] o.op = "scan_line" /\ k = 0 -> Stop(ch, o, "done")
            [] OTHER -> caml_input_scan_line(c1, o)
  BY <1>3 DEF Filled
<1> HIDE DEF c1
<1>8. /\ c2 \in ChanType /\ c2.fd = ch.fd /\ c2.offset = ch.offset + k /\ c2.buff = buff
      /\ c2.curr = 0
  BY <1>6 DEF ChanType
<1>9. ASSUME InWindow(ch), OpenCall(ch, o), p = ch.offset
      PROVE  buff = Positions(ch.offset + k - Len(buff), Len(buff))
  <2>1. CASE o.op = "scan_line"
    <3>1. o.new = Len(ch.buff)
      BY <1>9, <2>1 DEF OpenCall
    <3>2. start = ch.buff
      BY <3>1, <1>2, SubSeqFull
    <3> DEFINE f == ch.offset - o.new
    <3>3. start = Positions(f, o.new) /\ f \in Int /\ p = f + o.new
      BY <1>2, <1>9, <3>1, <3>2 DEF InWindow
    <3>4. buff = Positions(f, o.new + k)
      <4> HIDE DEF f, start
      <4> QED BY <1>1, <1>2, <3>3, PositionsConcat
    <3>5. f = ch.offset + k - (o.new + k)
      BY <1>1, <1>2
    <3> HIDE DEF buff, f
    <3> QED BY <3>4, <3>5, <1>5
  <2>2. CASE o.op # "scan_line"
    <3>1. o.new = 0
      BY <1>9, <2>2 DEF OpenCall
    <3>2. start = <<>>
      BY <3>1, SubSeqEmpty
    <3>3. buff = bs
      <4> HIDE DEF bs, start
      <4> QED BY <1>3, <3>2, ConcatEmptySeq
    <3>4. p = ch.offset + k - k
      BY <1>1, <1>2, <1>9
    <3>5. Len(buff) = k
      BY <3>3, <1>3
    <3> QED BY <3>3, <3>4, <3>5
  <2> QED BY <2>1, <2>2
<1>10. r = Filled(ch, o, Positions(p, k))
  OBVIOUS
<1> HIDE DEF buff, c2, r, bs, start
<1>11. Sized(c1) /\ Sized(c2) /\ Ready(c1, o) /\ Ready(c2, o)
  BY <1>1, <1>5, <1>6, <1>8 DEF Sized, Ready
<1>12. ASSUME InWindow(ch), OpenCall(ch, o), p = ch.offset
       PROVE  InWindow(c2) /\ (o.op = "scan_line" => InWindow(c1))
  <2>5. buff = Positions(ch.offset + k - Len(buff), Len(buff)) /\ 0 \in 0 .. Len(buff)
    BY <1>1, <1>2, <1>5, <1>9, <1>12
  <2> DEFINE f == ch.offset + k - Len(buff)
  <2>3. c2.offset - Len(c2.buff) = f /\ c1.offset - Len(c1.buff) = f
    BY <1>6, <1>8, <1>1, <1>2, <1>5
  <2> HIDE DEF f
  <2>4. buff = Positions(f, Len(buff))
    BY <2>5 DEF f
  <2>1. InWindow(c2)
    BY <1>8, <2>5, <2>3, <2>4 DEF InWindow
  <2>2. o.op = "scan_line" => c1.curr = 0
    BY <1>6, <1>12 DEF OpenCall
  <2> QED BY <1>6, <2>5, <2>1, <2>2, <2>3, <2>4 DEF InWindow
<1>13. o.op \in InOps /\ o.op \notin OutOps
  BY <1>1 DEF InOps, OutOps
<1>14. CASE o.op = "input" \/ (o.op = "input_char" /\ k > 0)
  <2> DEFINE m == IF o.op = "input" THEN IF o.left > k THEN k ELSE o.left ELSE 1
  <2>1. m \in Nat /\ m <= k
    BY <1>1, <1>14 DEF Ready
  <2>2. r = Take(c2, o, m)
    BY <1>7, <1>14
  <2> HIDE DEF m
  <2>3. c2.curr + m <= Len(c2.buff)
    BY <1>1, <1>2, <1>5, <1>8, <2>1
  <2>4. Keeps(r, c2, o)
    BY <1>11, <1>13, <2>1, <2>2, <2>3, TakeKeeps
  <2>5. Outcome(r, ch, o)
    BY <1>8, <2>4 DEF Keeps, Outcome
  <2>6. ASSUME NEW W, InWindow(ch), OpenCall(ch, o), p = ch.offset
        PROVE  OpenOutcome(r, ch.offset + k, o.op, W)
    <3>1. Window(c2, o.op, W)
      BY <1>12, <1>13, <2>6 DEF Window
    <3> QED BY <1>8, <2>4, <3>1 DEF Keeps
  <2> QED BY <1>10, <2>5, <2>6
<1>15. CASE o.op \in {"input_char", "scan_line"} /\ k = 0
  <2>1. r = Stop(ch, o, IF o.op = "input_char" THEN "raise" ELSE "done")
    BY <1>7, <1>15
  <2>2. Outcome(r, ch, o) /\ \A V : Window(ch, o.op, V) => OpenOutcome(r, ch.offset, o.op, V)
    <3>1. CASE o.op = "input_char"
      BY <1>1, <1>2, <2>1, <3>1, RaiseOutcome
    <3>2. CASE o.op # "input_char"
      <4>1. Keeps(r, ch, o)
        BY <1>1, <1>2, <2>1, <3>2, StopKeeps
      <4> QED BY <4>1 DEF Keeps
    <3> QED BY <3>1, <3>2
  <2>3. ASSUME NEW W, InWindow(ch), OpenCall(ch, o), p = ch.offset
        PROVE  OpenOutcome(r, ch.offset + k, o.op, W)
    <3>1. ch.offset + k = ch.offset
      BY <1>2, <1>15
    <3>2. Window(ch, o.op, W)
      BY <1>13, <2>3 DEF Window
    <3> QED BY <2>2, <3>1, <3>2
  <2> QED BY <1>10, <2>2, <2>3
<1>16. CASE o.op = "scan_line" /\ k # 0
  <2>1. r = caml_input_scan_line(c1, o)
    BY <1>7, <1>16
  <2>2. Keeps(r, c1, o)
    BY <1>11, <1>16, <2>1, ScanKeeps
  <2>3. Outcome(r, ch, o)
    BY <1>6, <2>2 DEF Keeps, Outcome
  <2>4. ASSUME NEW W, InWindow(ch), OpenCall(ch, o), p = ch.offset
        PROVE  OpenOutcome(r, ch.offset + k, o.op, W)
    <3>1. Window(c1, o.op, W)
      BY <1>12, <1>13, <1>16, <2>4 DEF Window
    <3> QED BY <1>6, <2>2, <3>1 DEF Keeps
  <2> QED BY <1>10, <2>3, <2>4
<1> QED BY <1>1, <1>14, <1>15, <1>16

LEMMA SeekedOutcome ==
  ASSUME NEW ch, NEW o, Ready(ch, o), o.op \in {"seek_in", "seek_out"}
  PROVE  /\ Outcome(Seeked(ch, o), ch, o)
         /\ \A W : Window(ch, o.op, W) /\ (o.op = "seek_out" => ch.buff = <<>>)
                     => OpenOutcome(Seeked(ch, o), o.left, o.op, W)
<1> DEFINE buff == IF o.op = "seek_in" THEN <<>> ELSE ch.buff
           c0 == [ch EXCEPT !.offset = o.left]
           c1 == [c0 EXCEPT !.buff = buff]
           c2 == [c1 EXCEPT !.curr = 0]
           r == Seeked(ch, o)
<1>1. o \in OpType /\ o.left \in Int /\ ch \in ChanType /\ Sized(ch) /\ ch.buff \in Seq(Int)
  BY BuffLen DEF Ready, OpType
<1>2. r = Stop(c2, o, "done")
  BY <1>1 DEF Seeked, ChanType
<1>3. buff \in Seq(Int) /\ Len(buff) <= IO_BUFFER_SIZE
  BY <1>1, BufferSize, EmptySeq DEF Sized
<1>4. c0 \in ChanType /\ c0.fd = ch.fd /\ c0.offset = o.left /\ c0.given = ch.given
  BY <1>1 DEF ChanType
<1> HIDE DEF c0
<1>5. /\ c1 \in ChanType /\ c1.fd = ch.fd /\ c1.offset = o.left /\ c1.given = ch.given
      /\ c1.buff = buff
  <2> HIDE DEF buff
  <2> QED BY <1>3, <1>4 DEF ChanType
<1> HIDE DEF c1
<1>6. /\ c2 \in ChanType /\ c2.fd = ch.fd /\ c2.offset = o.left /\ c2.given = ch.given
      /\ c2.buff = buff /\ c2.curr = 0
  BY <1>5 DEF ChanType
<1> HIDE DEF c2, r
<1>7. Sized(c2)
  BY <1>3, <1>6 DEF Sized
<1>8. Outcome(r, ch, o) /\ r.ch = c2 /\ r.o.at = "done"
  BY <1>1, <1>2, <1>6, <1>7, StopEnds
<1>9. ASSUME NEW W, Window(ch, o.op, W), o.op = "seek_out" => ch.buff = <<>>
      PROVE  OpenOutcome(r, o.left, o.op, W)
  <2>1. buff = <<>> /\ Len(buff) = 0
    BY <1>9, EmptySeq
  <2>2. Positions(o.left, 0) = <<>> /\ Positions(o.left - 0, 0) = <<>>
    <3>1. Positions(o.left, 0) \in Seq(Int) /\ Len(Positions(o.left, 0)) = 0
      BY <1>1, PositionsSeq
    <3>2. o.left - 0 = o.left
      BY <1>1
    <3>3. Positions(o.left, 0) = <<>>
      BY <3>1, EmptySeq
    <3> QED BY <3>2, <3>3
  <2> HIDE DEF buff
  <2>3. CASE o.op = "seek_out"
    <3>1. OutWindow(ch, W) /\ o.op \in OutOps
      BY <1>9, <2>3 DEF Window, OutOps
    <3>2. OutWindow(c2, W)
      BY <1>6, <1>9, <2>1, <2>2, <2>3, <3>1 DEF OutWindow
    <3> QED BY <1>6, <1>8, <3>1, <3>2 DEF OpenOutcome, Window
  <2>4. CASE o.op = "seek_in"
    <3>1. o.op \notin OutOps
      BY <2>4 DEF OutOps
    <3>2. InWindow(c2)
      BY <1>6, <2>1, <2>2 DEF InWindow
    <3> QED BY <1>6, <1>8, <3>1, <3>2 DEF OpenOutcome, Window
  <2> QED BY <2>3, <2>4
<1> QED BY <1>8, <1>9 DEF r

LEMMA ThreadReady ==
  ASSUME LockInv, NEW t \in Threads, thr[t].at # "idle"
  PROVE  /\ thr[t].c \in Chans /\ thr[t] \in OpType /\ Ready(chan[thr[t].c], thr[t])
         /\ thr[t].op \in OutOps <=> thr[t].c \in OutChans
<1>1. /\ thr[t] \in OpType /\ thr[t].c # none
      /\ thr[t].op \in IF thr[t].c \in OutChans THEN OutOps ELSE InOps
      /\ thr[t].op = "input" => thr[t].left \in Nat
  BY DEF LockInv, ThreadInv
<1>2. thr[t].c \in Chans
  BY <1>1 DEF OpType
<1>3. Sized(chan[thr[t].c])
  BY <1>2 DEF LockInv, TypeInv
<1> QED BY <1>1, <1>2, <1>3 DEF Ready, OutOps, InOps

\* What do_write, caml_do_read and the seeks make of the answer of the kernel.
LEMMA ResumedOutcome ==
  ASSUME LockInv, NEW t \in Threads, thr[t].at \in {"locked", "leave"}
  PROVE  /\ Outcome(Resumed(t), chan[thr[t].c], thr[t])
         /\ chan[thr[t].c].fd = "open" /\ OpenInv(thr[t].c) =>
              OpenOutcome(Resumed(t), kpos[thr[t].c], thr[t].op, Wrote(thr[t].c))
<1> DEFINE o == thr[t]
           c == o.c
           ch == chan[c]
           r == Resumed(t)
           W == Wrote(c)
<1>1. o.at # "idle"
  OBVIOUS
<1>2. c \in Chans /\ o \in OpType /\ Ready(ch, o) /\ (o.op \in OutOps <=> c \in OutChans) /\ Sized(ch)
  BY <1>1, ThreadReady DEF Ready
<1>3. kpos[c] \in Int /\ o.ret \in Int /\ o.n \in Int /\ ch.offset \in Int
  BY <1>2, BuffLen DEF LockInv, TypeInv, OpType
<1>4. o.at = "leave" => /\ CallOK(ch, o)
                        /\ o.call \in {"write", "read"} => o.ret <= o.n
                        /\ o.ret < 0 => o.ret \in {EINTR, EAGAIN, EIO}
                        /\ o.ret = EAGAIN => o.call = "write"
                        /\ o.call = "write" => o.ret # 0
                        /\ o.call = "lseek" => o.ret \in {0, EIO}
  BY DEF LockInv, ThreadInv, CallPlaces
<1>5. ASSUME ch.fd = "open", OpenInv(c)
      PROVE  /\ Window(ch, o.op, W)
             /\ KernelAt(ch, o, kpos[c], W)
             /\ o.at = "leave" => OpenCall(ch, o)
  <2>1. Inside(t, c)
    BY DEF Inside
  <2> QED BY <1>2, <1>5, <2>1 DEF OpenInv, Window, Wrote, CallPlaces
<1>6. r = CASE o.at = "locked" -> Run(ch, o)
            [] o.ret = EIO \/ (o.ret = EAGAIN /\ o.n = 1) -> Stop(ch, o, "raise")
            [] o.ret = EINTR -> Stop(ch, o, o.call)
            [] o.ret = EAGAIN /\ o.n > 1 -> Stop(ch, [o EXCEPT !.n = 1], o.call)
            [] OTHER -> CASE o.call = "write" -> Written(ch, o, o.ret)
                          [] o.call = "read" -> Filled(ch, o, Positions(kpos[c] - o.ret, o.ret))
                          [] o.call = "lseek" -> Seeked(ch, o)
  BY DEF Resumed
<1> HIDE DEF o, c, ch, r, W
<1>7. ASSUME Keeps(r, ch, o), KernelAt(ch, o, kpos[c], W) => kpos[c] = ch.offset
      PROVE  /\ Outcome(r, ch, o)
             /\ ch.fd = "open" /\ OpenInv(c) => OpenOutcome(r, kpos[c], o.op, W)
  BY <1>5, <1>7 DEF Keeps
<1>8. CASE o.at = "locked"
  <2>1. Keeps(r, ch, o)
    <3>1. o.ret = 0
      BY <1>8 DEF o, LockInv, ThreadInv
    <3>2. r = Run(ch, o)
      BY <1>6, <1>8, <3>1 DEF EINTR, EAGAIN, EIO
    <3> QED BY <1>2, <3>2, RunKeeps
  <2> QED BY <1>7, <1>8, <2>1 DEF KernelAt, o, c, ch, r, W
<1>9. CASE o.at = "leave" /\ o.ret < 0
  <2>1. KernelAt(ch, o, kpos[c], W) => kpos[c] = ch.offset
    BY <1>3, <1>9 DEF KernelAt
  <2>2. CASE o.ret = EIO \/ (o.ret = EAGAIN /\ o.n = 1)
    <3>1. r = Stop(ch, o, "raise")
      BY <1>6, <1>9, <2>2 DEF EINTR, EAGAIN, EIO
    <3>2. Outcome(r, ch, o) /\ \A V : Window(ch, o.op, V) => OpenOutcome(r, ch.offset, o.op, V)
      BY <1>2, <3>1, RaiseOutcome
    <3> QED BY <1>5, <2>1, <3>2 DEF o, c, ch, r, W
  <2>3. CASE o.ret = EINTR
    <3>1. r = Stop(ch, o, o.call)
      BY <1>6, <1>9, <2>3 DEF EINTR, EAGAIN, EIO
    <3>2. CallOK(ch, [op |-> o.op, call |-> o.call, n |-> o.n, new |-> o.new]) /\ o.call \in Calls
      BY <1>4, <1>9 DEF CallOK
    <3>3. OpenCall(ch, o) => OpenCall(ch, [op |-> o.op, call |-> o.call, n |-> o.n, new |-> o.new])
      BY DEF OpenCall
    <3>4. /\ Outcome(r, ch, o)
          /\ OpenCall(ch, o) => \A V : Window(ch, o.op, V) => OpenOutcome(r, ch.offset, o.op, V)
      BY <1>2, <3>1, <3>2, <3>3, CallOutcome
    <3> QED BY <1>5, <1>9, <2>1, <3>4 DEF o, c, ch, r, W
  <2>4. CASE o.ret = EAGAIN /\ o.n # 1
    <3> DEFINE o1 == [o EXCEPT !.n = 1]
    <3>1. o.call = "write" /\ CallOK(ch, o) /\ o.n > 1
      BY <1>3, <1>4, <1>9, <2>4, BufferSize DEF CallOK
    <3>2. r = Stop(ch, o1, o.call)
      BY <1>6, <1>9, <2>4, <3>1 DEF EINTR, EAGAIN, EIO
    <3>3. o1 \in OpType
      BY <1>2, OpUpdate
    <3>4. o1.c = o.c /\ o1.op = o.op /\ o1.left = o.left /\ o1.n = 1 /\ o1.new = o.new
      BY <1>2 DEF OpType
    <3> HIDE DEF o1
    <3>5. CallOK(ch, [op |-> o.op, call |-> o.call, n |-> o1.n, new |-> o1.new]) /\ o.call \in Calls
      <4>1. Len(ch.buff) \in Nat
        BY <1>2, BuffLen
      <4> QED BY <3>1, <3>4, <4>1, BufferSize DEF CallOK
    <3>6. OpenCall(ch, [op |-> o.op, call |-> o.call, n |-> o1.n, new |-> o1.new])
      BY <3>1 DEF OpenCall
    <3>7. /\ Outcome(r, ch, o)
          /\ \A V : Window(ch, o.op, V) => OpenOutcome(r, ch.offset, o.op, V)
      BY <1>2, <3>2, <3>3, <3>4, <3>5, <3>6, CallOutcome
    <3> QED BY <1>5, <2>1, <3>7 DEF o, c, ch, r, W
  <2> QED BY <1>4, <1>9, <2>2, <2>3, <2>4
<1>10. CASE o.at = "leave" /\ o.ret >= 0
  <2>1. ~(o.ret = EIO \/ o.ret = EAGAIN \/ o.ret = EINTR) /\ o.ret \in Nat
    BY <1>3, <1>10 DEF EINTR, EAGAIN, EIO
  <2>2. CallOK(ch, o)
    BY <1>4, <1>10
  <2>3. CASE o.call = "write"
    <3>1. r = Written(ch, o, o.ret)
      BY <1>6, <1>10, <2>1, <2>3
    <3>2. o.ret \in 1 .. o.n
      BY <1>3, <1>4, <1>10, <2>1, <2>3
    <3>3. /\ Outcome(r, ch, o)
          /\ \A V : ch.fd = "open" /\ OutWindow(ch, V) /\ ch.offset + 1 .. ch.offset + o.ret \subseteq V
                      => OpenOutcome(r, ch.offset + o.ret, o.op, V)
      BY <1>2, <2>2, <2>3, <3>1, <3>2, WrittenOutcome
    <3>4. ASSUME ch.fd = "open", OpenInv(c)
          PROVE  OpenOutcome(r, kpos[c], o.op, W)
      <4>1. /\ kpos[c] = ch.offset + o.ret
            /\ ch.offset + 1 .. kpos[c] \subseteq W
        BY <1>3, <1>5, <1>10, <2>3, <3>2, <3>4 DEF KernelAt
      <4>2. OutWindow(ch, W)
        BY <1>5, <2>2, <2>3, <3>4 DEF Window, CallOK
      <4> QED BY <3>3, <3>4, <4>1, <4>2
    <3> QED BY <3>3, <3>4 DEF o, c, ch, r, W
  <2>4. CASE o.call = "read"
    <3> DEFINE p == kpos[c] - o.ret
    <3>1. r = Filled(ch, o, Positions(p, o.ret)) /\ p \in Int
      BY <1>3, <1>6, <1>10, <2>1, <2>4
    <3>2. o.ret \in 0 .. o.n
      BY <1>3, <1>4, <1>10, <2>1, <2>4
    <3> HIDE DEF p
    <3>3. /\ Outcome(r, ch, o)
          /\ \A V : InWindow(ch) /\ OpenCall(ch, o) /\ p = ch.offset
                      => OpenOutcome(r, ch.offset + o.ret, o.op, V)
      BY <1>2, <2>2, <2>4, <3>1, <3>2, FilledOutcome
    <3>4. ASSUME ch.fd = "open", OpenInv(c)
          PROVE  OpenOutcome(r, kpos[c], o.op, W)
      <4>1. kpos[c] = ch.offset + o.ret /\ p = ch.offset
        BY <1>3, <1>5, <1>10, <2>1, <2>4, <3>4 DEF KernelAt, p
      <4>2. InWindow(ch) /\ OpenCall(ch, o)
        BY <1>5, <1>10, <2>2, <2>4, <3>4 DEF Window, CallOK, OutOps
      <4> QED BY <3>3, <4>1, <4>2
    <3> QED BY <3>3, <3>4 DEF o, c, ch, r, W
  <2>5. CASE o.call = "lseek"
    <3>1. r = Seeked(ch, o) /\ o.op \in {"seek_in", "seek_out"}
      BY <1>6, <1>10, <2>1, <2>2, <2>5 DEF CallOK
    <3>2. /\ Outcome(r, ch, o)
          /\ \A V : Window(ch, o.op, V) /\ (o.op = "seek_out" => ch.buff = <<>>)
                      => OpenOutcome(r, o.left, o.op, V)
      BY <1>2, <3>1, SeekedOutcome
    <3>3. ASSUME ch.fd = "open", OpenInv(c)
          PROVE  OpenOutcome(r, kpos[c], o.op, W)
      <4>1. kpos[c] = o.left
        BY <1>4, <1>5, <1>10, <2>1, <2>5, <3>3 DEF KernelAt
      <4>2. Window(ch, o.op, W) /\ (o.op = "seek_out" => ch.buff = <<>>)
        BY <1>5, <1>10, <2>5, <3>3 DEF OpenCall
      <4> QED BY <3>2, <4>1, <4>2
    <3> QED BY <3>2, <3>3 DEF o, c, ch, r, W
  <2> QED BY <2>2, <2>3, <2>4, <2>5 DEF CallOK, Calls
<1> QED BY <1>3, <1>8, <1>9, <1>10 DEF o
-----------------------------------------------------------------------------
(* Locks.  A step of a thread moves it within its operation, lets it take   *)
(* the mutex of its channel or makes it release the mutex that it has.      *)

Moved(t, o) == thr' = [thr EXCEPT ![t] = o]

LEMMA LocksFrame ==
  ASSUME LockInv, NEW t \in Threads, NEW o \in OpType, Moved(t, o), UNCHANGED locks,
         o.at \in {"enter", "sys", "leave", "locked"}
           <=> thr[t].at \in {"enter", "sys", "leave", "locked"},
         thr[t].at \in {"enter", "sys", "leave", "locked"} => o.c = thr[t].c
  PROVE  LocksReleased'
<1>1. thr \in [Threads -> OpType] /\ mutex \in [Chans -> Threads \cup {none}]
  BY DEF LockInv, TypeInv
<1>2. \A c \in Chans, u \in Threads : Inside(u, c)' <=> Inside(u, c)
  BY <1>1 DEF Inside, Moved
<1>3. mutex' = mutex /\ last_channel_locked' = last_channel_locked
  BY DEF locks
<1>4. none \notin Threads
  BY ChannelSizes
<1>5. ASSUME NEW c \in Chans, mutex'[c] # none
      PROVE  (Inside(mutex[c], c))'
  <2>1. mutex[c] \in Threads /\ Inside(mutex[c], c)
    BY <1>1, <1>3, <1>5 DEF LockInv, LocksReleased
  <2>2. \A u \in Threads : Inside(u, c) => Inside(u, c)'
    BY <1>2
  <2>3. mutex'[c] = mutex[c]
    BY <1>3
  <2> QED BY <2>1, <2>2, <2>3 DEF Inside
<1> QED BY <1>2, <1>3, <1>5 DEF LockInv, LocksReleased

LEMMA Owner ==
  ASSUME LockInv, NEW t \in Threads, NEW c \in Chans
  PROVE  /\ Inside(t, c) => mutex[c] = t /\ last_channel_locked[t] = c
         /\ mutex[c] = t => Inside(t, c)
         /\ last_channel_locked[t] = c => Inside(t, c)
<1>1. none \notin Threads /\ c # none
  BY ChannelSizes DEF Chans
<1> QED BY <1>1 DEF LockInv, LocksReleased, ThreadInv

LEMMA LocksRelease ==
  ASSUME LockInv, NEW t \in Threads, Moved(t, Idle),
         mutex' = IF last_channel_locked[t] = none THEN mutex
                  ELSE Unlocked(mutex, last_channel_locked[t]),
         last_channel_locked' = [last_channel_locked EXCEPT ![t] = none]
  PROVE  LocksReleased'
<1> DEFINE k == last_channel_locked[t]
<1>1. /\ thr \in [Threads -> OpType] /\ mutex \in [Chans -> Threads \cup {none}]
      /\ last_channel_locked \in [Threads -> Chans \cup {none}] /\ k \in Chans \cup {none}
  BY DEF LockInv, TypeInv
<1>2. none \notin Threads /\ none \notin Chans
  BY ChannelSizes DEF Chans
<1>3. ASSUME NEW c \in Chans
      PROVE  mutex'[c] = IF c = k THEN none ELSE mutex[c]
  BY <1>1, <1>2 DEF Unlocked
<1>4. \A c \in Chans : ~Inside(t, c)'
  BY <1>1 DEF Inside, Moved, Idle
<1>5. \A c \in Chans, u \in Threads \ {t} : Inside(u, c)' <=> Inside(u, c)
  BY <1>1 DEF Inside, Moved
<1>6. ASSUME NEW c \in Chans, mutex'[c] # none
      PROVE  (Inside(mutex[c], c))'
  <2> DEFINE u == mutex[c]
  <2>1. c # k /\ mutex'[c] = u /\ u \in Threads
    BY <1>1, <1>3, <1>6
  <2>2. Inside(u, c) /\ last_channel_locked[u] = c
    BY <1>1, <2>1, Owner
  <2>3. u # t
    BY <2>1, <2>2
  <2>4. thr'[u] = thr[u]
    BY <1>1, <2>1, <2>3 DEF Moved
  <2> QED BY <2>1, <2>2, <2>4 DEF Inside
<1>7. ASSUME NEW c \in Chans, NEW u \in Threads, Inside(u, c)'
      PROVE  mutex'[c] = u /\ last_channel_locked'[u] = c
  <2>1. u # t /\ Inside(u, c)
    BY <1>4, <1>5, <1>7
  <2>2. mutex[c] = u /\ last_channel_locked[u] = c
    BY <2>1, Owner
  <2>3. c # k
    <3>1. c = k => mutex[c] = t
      BY Owner
    <3> QED BY <2>1, <2>2, <3>1
  <2> QED BY <1>1, <1>3, <2>1, <2>2, <2>3
<1> QED BY <1>6, <1>7 DEF LocksReleased

LEMMA LocksAcquire ==
  ASSUME LockInv, NEW t \in Threads, NEW o \in OpType, Moved(t, o),
         thr[t].at \in {"lock", "lockwait"}, o.c \in Chans, mutex[o.c] = none,
         o.at \in {"enter", "sys", "leave", "locked"},
         mutex' = [mutex EXCEPT ![o.c] = t],
         last_channel_locked' = [last_channel_locked EXCEPT ![t] = o.c]
  PROVE  LocksReleased'
<1> DEFINE k == o.c
<1>1. /\ thr \in [Threads -> OpType] /\ mutex \in [Chans -> Threads \cup {none}]
      /\ last_channel_locked \in [Threads -> Chans \cup {none}]
  BY DEF LockInv, TypeInv
<1>2. none \notin Threads
  BY ChannelSizes DEF Chans
<1>3. \A c \in Chans : mutex'[c] = IF c = k THEN t ELSE mutex[c]
  BY <1>1
<1>4. \A c \in Chans : Inside(t, c)' <=> c = k
  BY <1>1 DEF Inside, Moved
<1>5. \A c \in Chans, u \in Threads \ {t} : Inside(u, c)' <=> Inside(u, c)
  BY <1>1 DEF Inside, Moved
<1>6. \A c \in Chans : ~Inside(t, c)
  BY DEF Inside
<1>7. ASSUME NEW c \in Chans, mutex'[c] # none
      PROVE  (Inside(mutex[c], c))'
  <2>1. CASE c = k
    <3>1. mutex'[c] = t /\ Inside(t, c)'
      BY <1>3, <1>4, <2>1
    <3> QED BY <3>1 DEF Inside
  <2>2. CASE c # k
    <3> DEFINE u == mutex[c]
    <3>1. mutex'[c] = u /\ u \in Threads
      BY <1>1, <1>3, <1>7, <2>2
    <3>2. Inside(u, c)
      BY <3>1, Owner
    <3>3. u # t
      BY <1>6, <3>2
    <3>4. thr'[u] = thr[u]
      BY <1>1, <3>1, <3>3 DEF Moved
    <3> QED BY <3>1, <3>2, <3>4 DEF Inside
  <2> QED BY <2>1, <2>2
<1>8. ASSUME NEW c \in Chans, NEW u \in Threads, Inside(u, c)'
      PROVE  mutex'[c] = u /\ last_channel_locked'[u] = c
  <2>1. CASE u = t
    BY <1>1, <1>3, <1>4, <1>8, <2>1
  <2>2. CASE u # t
    <3>1. Inside(u, c)
      BY <1>5, <1>8, <2>2
    <3>2. mutex[c] = u /\ last_channel_locked[u] = c
      BY <3>1, Owner
    <3>3. c # k
      BY <1>2, <3>2
    <3> QED BY <1>1, <1>3, <2>2, <3>2, <3>3
  <2> QED BY <2>1, <2>2
<1> QED BY <1>7, <1>8 DEF LocksReleased

\* The other threads, when one of them has taken a step.
LEMMA OthersKept ==
  ASSUME LockInv, NEW t \in Threads, NEW o, Moved(t, o), TypeInv', LocksReleased', ThreadInv(t)',
         \A u \in Threads \ {t} : last_channel_locked'[u] = last_channel_locked[u],
         \A u \in Threads \ {t} :
           thr[u].at \in CallPlaces => chan'[thr[u].c] = chan[thr[u].c]
  PROVE  LockInv'
<1>1. thr \in [Threads -> OpType]
  BY DEF LockInv, TypeInv
<1>2. ASSUME NEW u \in Threads \ {t}
      PROVE  ThreadInv(u)'
  <2>1. thr'[u] = thr[u] /\ last_channel_locked'[u] = last_channel_locked[u]
    BY <1>1 DEF Moved
  <2>2. ThreadInv(u)
    BY DEF LockInv
  <2>3. thr[u].at \in CallPlaces => CallOK(chan[thr[u].c], thr[u]) /\ chan'[thr[u].c] = chan[thr[u].c]
    BY <2>2 DEF ThreadInv
  <2>4. thr'[u].at \in CallPlaces => CallOK(chan'[thr'[u].c], thr'[u])
    BY <2>1, <2>3
  <2> QED BY <2>1, <2>2, <2>4 DEF ThreadInv, Inside
<1> QED BY <1>2 DEF LockInv

LEMMA IdleTyped == Idle \in OpType /\ Idle.at = "idle" /\ Idle.c = none
BY EmptySeq DEF Idle, OpType, Places, Calls, OutOps, InOps

\* caml_raise: wherever the thread is.
LEMMA RaiseKeeps ==
  ASSUME LockInv, NEW t \in Threads, caml_raise(t), UNCHANGED kernel, torn' \subseteq Chans,
         sigs' \in [n : Nat, pending : BOOLEAN]
  PROVE  LockInv'
<1>1. Moved(t, Idle) /\ LocksReleased'
  <2>1. Moved(t, Idle)
    BY DEF caml_raise, Moved
  <2> QED BY <2>1, LocksRelease DEF caml_raise
<1>2. /\ thr \in [Threads -> OpType] /\ mutex \in [Chans -> Threads \cup {none}]
      /\ last_channel_locked \in [Threads -> Chans \cup {none}] /\ TypeInv
  BY DEF LockInv, TypeInv
<1>3. TypeInv'
  <2>1. thr' \in [Threads -> OpType]
    BY <1>1, <1>2, IdleTyped DEF Moved
  <2>2. mutex' \in [Chans -> Threads \cup {none}]
    BY <1>2 DEF caml_raise, Unlocked
  <2>3. last_channel_locked' \in [Threads -> Chans \cup {none}]
    BY <1>2 DEF caml_raise
  <2>4. chan' = chan /\ kpos' = kpos /\ file' = file
    BY DEF caml_raise, kernel
  <2> QED BY <1>2, <2>1, <2>2, <2>3, <2>4 DEF TypeInv
<1>4. ThreadInv(t)'
  <2>1. thr'[t] = Idle /\ last_channel_locked'[t] = none
    BY <1>1, <1>2 DEF Moved, caml_raise
  <2> QED BY <2>1, IdleTyped DEF ThreadInv, CallPlaces
<1>5. \A u \in Threads \ {t} : last_channel_locked'[u] = last_channel_locked[u]
  BY <1>2 DEF caml_raise
<1> QED BY <1>1, <1>3, <1>4, <1>5, OthersKept DEF caml_raise

\* A channel that the thread is alone to use.
LEMMA OthersOutside ==
  ASSUME LockInv, NEW t \in Threads, NEW c \in Chans, mutex[c] \in {t, none},
         NEW ch, chan' = [chan EXCEPT ![c] = ch], NEW u \in Threads \ {t}, thr[u].at \in CallPlaces
  PROVE  thr[u].c \in Chans /\ thr[u].c # c /\ chan'[thr[u].c] = chan[thr[u].c]
<1>1. thr[u].c \in Chans
  <2>1. thr[u].at # "idle"
    BY DEF CallPlaces
  <2> QED BY <2>1, ThreadReady
<1>2. Inside(u, thr[u].c)
  BY DEF Inside, CallPlaces
<1>3. mutex[thr[u].c] = u
  BY <1>1, <1>2, Owner
<1>4. thr[u].c # c
  BY <1>3, ChannelSizes
<1>5. chan \in [Chans -> ChanType]
  BY DEF LockInv, TypeInv
<1> QED BY <1>1, <1>4, <1>5

\* Proceed: the operation reaches its next blocking section or ends.
LEMMA ProceedKeeps ==
  ASSUME LockInv, NEW t \in Threads, NEW r, thr[t].at \in {"locked", "leave"}, UNCHANGED kernel,
         Outcome(r, chan[thr[t].c], thr[t]), Proceed(t, r), torn' \subseteq Chans,
         sigs' \in [n : Nat, pending : BOOLEAN]
  PROVE  LockInv'
<1> DEFINE c == thr[t].c
<1>1. /\ thr \in [Threads -> OpType] /\ mutex \in [Chans -> Threads \cup {none}]
      /\ last_channel_locked \in [Threads -> Chans \cup {none}] /\ chan \in [Chans -> ChanType]
      /\ TypeInv /\ ThreadInv(t)
  BY DEF LockInv, TypeInv
<1>2. c \in Chans /\ Inside(t, c) /\ mutex[c] = t /\ last_channel_locked[t] = c
  <2>1. c \in Chans
    BY ThreadReady
  <2>2. Inside(t, c)
    BY DEF Inside
  <2> QED BY <2>1, <2>2, Owner
<1>3. /\ Sized(r.ch) /\ r.ch \in ChanType /\ r.o \in OpType /\ r.o.c = c /\ r.o.op = thr[t].op
      /\ r.o.op = "input" => r.o.left = thr[t].left
      /\ r.o.at \in {"done", "raise", "enter"} /\ (r.o.at = "enter" => CallOK(r.ch, r.o))
  BY DEF Outcome, Sized
<1>4. CASE r.o.at = "raise"
  BY <1>4, RaiseKeeps DEF Proceed
<1>5. CASE r.o.at # "raise"
  <2>1. chan' = [chan EXCEPT ![c] = r.ch]
    BY <1>3, <1>5 DEF Proceed
  <2>2. \A u \in Threads \ {t} : thr[u].at \in CallPlaces => chan'[thr[u].c] = chan[thr[u].c]
    BY <1>2, <2>1, OthersOutside
  <2>3. chan' \in [Chans -> ChanType] /\ \A d \in Chans : Sized(chan'[d])
    BY <1>1, <1>2, <1>3, <2>1 DEF TypeInv
  <2>4. CASE r.o.at = "done"
    <3>1. /\ Moved(t, Idle) /\ mutex' = Unlocked(mutex, c)
          /\ last_channel_locked' = [last_channel_locked EXCEPT ![t] = none]
      BY <1>3, <2>4 DEF Proceed, Moved
    <3>2. LocksReleased'
      <4>1. c # none
        BY <1>2, ChannelSizes DEF Chans
      <4> QED BY <1>2, <3>1, <4>1, LocksRelease
    <3>3. TypeInv'
      <4>1. thr' \in [Threads -> OpType]
        BY <1>1, <3>1, IdleTyped DEF Moved
      <4>2. mutex' \in [Chans -> Threads \cup {none}]
        BY <1>1, <3>1 DEF Unlocked
      <4>3. last_channel_locked' \in [Threads -> Chans \cup {none}]
        BY <1>1, <3>1
      <4> QED BY <1>1, <2>3, <4>1, <4>2, <4>3 DEF TypeInv, kernel
    <3>4. ThreadInv(t)'
      <4>1. thr'[t] = Idle /\ last_channel_locked'[t] = none
        BY <1>1, <3>1 DEF Moved
      <4> QED BY <4>1, IdleTyped DEF ThreadInv, CallPlaces
    <3>5. \A u \in Threads \ {t} : last_channel_locked'[u] = last_channel_locked[u]
      BY <1>1, <3>1
    <3> QED BY <2>2, <3>1, <3>2, <3>3, <3>4, <3>5, OthersKept
  <2>5. CASE r.o.at = "enter"
    <3>1. Moved(t, r.o) /\ UNCHANGED locks
      BY <2>5 DEF Proceed, Moved
    <3>2. LocksReleased'
      BY <1>3, <2>5, <3>1, LocksFrame
    <3>3. TypeInv'
      <4>1. thr' \in [Threads -> OpType]
        BY <1>1, <1>3, <3>1 DEF Moved
      <4> QED BY <1>1, <2>3, <3>1, <4>1 DEF TypeInv, kernel, locks
    <3>4. ThreadInv(t)'
      <4>1. thr'[t] = r.o /\ last_channel_locked'[t] = c /\ chan'[c] = r.ch
        BY <1>1, <1>2, <2>1, <3>1 DEF Moved, locks
      <4>2. c # none /\ Inside(t, c)'
        BY <1>2, <1>3, <2>5, <4>1, ChannelSizes DEF Chans, Inside
      <4> QED BY <1>1, <1>2, <1>3, <2>5, <4>1, <4>2 DEF ThreadInv
    <3>5. \A u \in Threads \ {t} : last_channel_locked'[u] = last_channel_locked[u]
      BY <3>1 DEF locks
    <3> QED BY <2>2, <3>1, <3>2, <3>3, <3>4, <3>5, OthersKept
  <2> QED BY <1>3, <1>5, <2>4, <2>5
<1> QED BY <1>4, <1>5

\* A step that moves one thread and leaves the channels and the locks alone.
LEMMA PlaceKeeps ==
  ASSUME LockInv, NEW t \in Threads, NEW o \in OpType, Moved(t, o), UNCHANGED <<chan, locks, torn>>,
         o.at \in {"enter", "sys", "leave", "locked"}
           <=> thr[t].at \in {"enter", "sys", "leave", "locked"},
         thr[t].at # "idle" => o.c = thr[t].c,
         ThreadInv(t)', DOMAIN file' = OutChans, kpos' \in [Chans -> Int],
         sigs' \in [n : Nat, pending : BOOLEAN]
  PROVE  LockInv'
<1>1. LocksReleased'
  <2>1. UNCHANGED locks
    OBVIOUS
  <2> QED BY <2>1, LocksFrame
<1>2. TypeInv'
  <2>1. thr' \in [Threads -> OpType]
    BY DEF LockInv, TypeInv, Moved
  <2> QED BY <2>1 DEF LockInv, TypeInv, locks
<1> QED BY <1>1, <1>2, OthersKept DEF locks

LEMMA BeginKeeps ==
  ASSUME LockInv, NEW t \in Threads, Begin(t)
  PROVE  LockInv'
<1>9. PICK c \in Chans : \E q \in Ops(c) :
        /\ thr[t].at = "idle"
        /\ thr' = [thr EXCEPT ![t] = [Idle EXCEPT !.op = q.op, !.left = q.left, !.c = c, !.at = "lock"]]
        /\ UNCHANGED <<chan, kernel, locks, sigs, torn>>
  BY DEF Begin
<1>1. PICK p \in Ops(c) :
        /\ thr[t].at = "idle"
        /\ thr' = [thr EXCEPT ![t] = [Idle EXCEPT !.op = p.op, !.left = p.left, !.c = c, !.at = "lock"]]
        /\ UNCHANGED <<chan, kernel, locks, sigs, torn>>
  BY <1>9
<1> DEFINE o == [Idle EXCEPT !.op = p.op, !.left = p.left, !.c = c, !.at = "lock"]
<1>2. /\ p.op \in IF c \in OutChans THEN OutOps ELSE InOps
      /\ p.left \in Nat
  BY ChannelSizes DEF Ops, OutOps, InOps, Chans
<1>3. /\ o.op = p.op /\ o.left = p.left /\ o.c = c /\ o.at = "lock" /\ o.call = "none"
      /\ o.ret = 0
  BY DEF Idle
<1>4. o \in OpType
  <2> DEFINE o1 == [Idle EXCEPT !.op = p.op]
             o2 == [o1 EXCEPT !.left = p.left]
             o3 == [o2 EXCEPT !.c = c]
             o4 == [o3 EXCEPT !.at = "lock"]
  <2>1. o = o4
    OBVIOUS
  <2> HIDE DEF o
  <2>2. o1 \in OpType
    BY <1>2, IdleTyped DEF OpType
  <2> HIDE DEF o1
  <2>3. o2 \in OpType
    BY <1>2, <2>2, OpUpdate
  <2> HIDE DEF o2
  <2>4. o3 \in OpType
    BY <2>3 DEF OpType
  <2> HIDE DEF o3
  <2>5. o4 \in OpType
    BY <2>4, OpUpdate DEF Places
  <2> QED BY <2>1, <2>5
<1> HIDE DEF o
<1>5. Moved(t, o) /\ c # none
  BY <1>1, ChannelSizes DEF Moved, o, Chans
<1>6. thr'[t] = o /\ last_channel_locked'[t] = last_channel_locked[t] /\ ThreadInv(t)
  BY <1>1, <1>5 DEF LockInv, TypeInv, Moved, locks
<1>7. last_channel_locked[t] = none
  BY <1>1, <1>6 DEF ThreadInv, Inside
<1>8. ThreadInv(t)'
  BY <1>2, <1>3, <1>4, <1>5, <1>6, <1>7 DEF ThreadInv, CallPlaces
<1> QED BY <1>1, <1>3, <1>4, <1>5, <1>8, PlaceKeeps DEF LockInv, TypeInv, kernel

LEMMA TryLockKeeps ==
  ASSUME LockInv, NEW t \in Threads, TryLock(t)
  PROVE  LockInv'
<1> DEFINE c == thr[t].c
           r == Run(chan[c], thr[t])
<1>1. /\ thr[t].at = "lock" /\ mutex[c] = none /\ chan' = [chan EXCEPT ![c] = r.ch]
      /\ UNCHANGED <<kernel, sigs, torn>>
  BY DEF TryLock
<1>2. /\ thr \in [Threads -> OpType] /\ mutex \in [Chans -> Threads \cup {none}]
      /\ last_channel_locked \in [Threads -> Chans \cup {none}] /\ chan \in [Chans -> ChanType]
      /\ TypeInv /\ ThreadInv(t)
  BY DEF LockInv, TypeInv
<1>3. c \in Chans /\ Ready(chan[c], thr[t])
  BY <1>1, ThreadReady
<1>4. Outcome(r, chan[c], thr[t]) /\ r.o.at # "raise"
  BY <1>3, RunKeeps DEF Keeps
<1>5. /\ r.o.at = "done" =>
           /\ Moved(t, Idle) /\ UNCHANGED mutex
           /\ last_channel_locked' = [last_channel_locked EXCEPT ![t] = none]
      /\ r.o.at # "done" =>
           /\ Moved(t, r.o) /\ mutex' = [mutex EXCEPT ![c] = t]
           /\ last_channel_locked' = [last_channel_locked EXCEPT ![t] = c]
  BY DEF TryLock, Moved
<1>6. last_channel_locked[t] = none
  BY <1>1, <1>2 DEF ThreadInv, Inside
<1> HIDE DEF r
<1>7. /\ Sized(r.ch) /\ r.ch \in ChanType /\ r.o \in OpType /\ r.o.c = c /\ r.o.op = thr[t].op
      /\ r.o.op = "input" => r.o.left = thr[t].left
      /\ r.o.at \in {"done", "raise", "enter"} /\ (r.o.at = "enter" => CallOK(r.ch, r.o))
  BY <1>4 DEF Outcome, Sized
<1>8. \A u \in Threads \ {t} : thr[u].at \in CallPlaces => chan'[thr[u].c] = chan[thr[u].c]
  BY <1>1, <1>3, OthersOutside
<1>9. chan' \in [Chans -> ChanType] /\ \A d \in Chans : Sized(chan'[d])
  BY <1>1, <1>2, <1>3, <1>7 DEF TypeInv
<1>10. CASE r.o.at = "done"
  <2>1. LocksReleased'
    BY <1>5, <1>6, <1>10, LocksRelease
  <2>2. TypeInv'
    <3>1. thr' \in [Threads -> OpType]
      BY <1>2, <1>5, <1>10, IdleTyped DEF Moved
    <3>2. last_channel_locked' \in [Threads -> Chans \cup {none}]
      BY <1>2, <1>5, <1>10
    <3> QED BY <1>1, <1>2, <1>5, <1>9, <1>10, <3>1, <3>2 DEF TypeInv, kernel
  <2>3. ThreadInv(t)'
    <3>1. thr'[t] = Idle /\ last_channel_locked'[t] = none
      BY <1>2, <1>5, <1>10 DEF Moved
    <3> QED BY <3>1, IdleTyped DEF ThreadInv, CallPlaces
  <2>4. \A u \in Threads \ {t} : last_channel_locked'[u] = last_channel_locked[u]
    BY <1>2, <1>5, <1>10
  <2> QED BY <1>5, <1>8, <1>10, <2>1, <2>2, <2>3, <2>4, OthersKept
<1>11. CASE r.o.at = "enter"
  <2>1. LocksReleased'
    BY <1>1, <1>3, <1>5, <1>7, <1>11, LocksAcquire
  <2>2. TypeInv'
    <3>1. thr' \in [Threads -> OpType]
      BY <1>2, <1>5, <1>7, <1>11 DEF Moved
    <3>2. last_channel_locked' \in [Threads -> Chans \cup {none}]
      BY <1>2, <1>3, <1>5, <1>11
    <3>3. mutex' \in [Chans -> Threads \cup {none}]
      BY <1>2, <1>3, <1>5, <1>11
    <3> QED BY <1>1, <1>2, <1>9, <3>1, <3>2, <3>3 DEF TypeInv, kernel
  <2>3. ThreadInv(t)'
    <3>1. thr'[t] = r.o /\ last_channel_locked'[t] = c /\ chan'[c] = r.ch
      BY <1>1, <1>2, <1>3, <1>5, <1>11 DEF Moved
    <3>2. c # none /\ Inside(t, c)'
      BY <1>3, <1>7, <1>11, <3>1, ChannelSizes DEF Chans, Inside
    <3> QED BY <1>1, <1>2, <1>3, <1>7, <1>11, <3>1, <3>2 DEF ThreadInv
  <2>4. \A u \in Threads \ {t} : last_channel_locked'[u] = last_channel_locked[u]
    BY <1>2, <1>5, <1>11
  <2> QED BY <1>5, <1>8, <1>11, <2>1, <2>2, <2>3, <2>4, OthersKept
<1> QED BY <1>4, <1>7, <1>10, <1>11

\* The bytes that a write is given.
LEMMA WriteData ==
  ASSUME NEW ch, NEW o, Ready(ch, o), CallOK(ch, o), o.call = "write"
  PROVE  LET bytes == SubSeq(ch.buff \o Positions(pos_out(ch), o.new), 1, o.n)
         IN /\ bytes \in Seq(Int) /\ Len(bytes) = o.n
            /\ \A W : OutWindow(ch, W) => bytes = Positions(ch.offset, o.n)
<1> DEFINE p == Positions(pos_out(ch), o.new)
           all == ch.buff \o p
           bytes == SubSeq(all, 1, o.n)
           l == Len(ch.buff)
<1>1. /\ ch.buff \in Seq(Int) /\ l \in Nat /\ ch.offset \in Int /\ o.new \in Nat
      /\ o.n \in Nat /\ o.n >= 1 /\ o.n <= l + o.new
  BY BuffLen, BufferSize DEF Ready, CallOK
<1>2. pos_out(ch) = ch.offset + l /\ pos_out(ch) \in Int
  BY <1>1 DEF pos_out
<1>3. p \in Seq(Int) /\ Len(p) = o.new
  BY <1>1, <1>2, PositionsSeq
<1>4. all \in Seq(Int) /\ Len(all) = l + o.new
  <2> HIDE DEF p
  <2> QED BY <1>1, <1>3, ConcatProperties
<1>5. bytes \in Seq(Int) /\ Len(bytes) = o.n
  <2> HIDE DEF all
  <2>1. \A i \in 1 .. o.n : all[i] \in Int
    BY <1>1, <1>4, ElementOfSeq
  <2>2. 1 \in Int /\ o.n \in Int
    BY <1>1
  <2>3. bytes \in Seq(Int) /\ Len(bytes) = IF 1 <= o.n THEN o.n - 1 + 1 ELSE 0
    BY <2>1, <2>2, SubSeqProperties
  <2> HIDE DEF bytes
  <2> QED BY <1>1, <2>3
<1>6. ASSUME NEW W, OutWindow(ch, W)
      PROVE  bytes = Positions(ch.offset, o.n)
  <2>1. ch.buff = Positions(ch.offset, l)
    BY <1>6 DEF OutWindow
  <2>2. all = Positions(ch.offset, l + o.new)
    BY <1>1, <1>2, <2>1, PositionsConcat
  <2> DEFINE m == l + o.new
             j == 1
  <2>3. m \in Nat /\ j \in 1 .. m + 1 /\ o.n \in j - 1 .. m
    BY <1>1
  <2>4. SubSeq(Positions(ch.offset, m), j, o.n) = Positions(ch.offset + (j - 1), o.n - j + 1)
    <3> HIDE DEF m, j
    <3> QED BY <1>1, <2>3, PositionsSub
  <2>5. ch.offset + (j - 1) = ch.offset /\ o.n - j + 1 = o.n
    BY <1>1
  <2>6. bytes = SubSeq(Positions(ch.offset, m), j, o.n)
    BY <2>2
  <2> HIDE DEF bytes
  <2> QED BY <2>4, <2>5, <2>6
<1> QED BY <1>5, <1>6

\* The record of a thread that enters a blocking section.
Entered(t) ==
  LET o == thr[t]
      ch == chan[o.c]
      waits == o.at = "lock" /\ mutex[o.c] # none
      bytes == IF o.call = "write" THEN SubSeq(ch.buff \o Positions(pos_out(ch), o.new), 1, o.n)
               ELSE <<>>
  IN [[o EXCEPT !.at = IF waits THEN "lockwait" ELSE "sys"] EXCEPT !.data = bytes]

LEMMA EnteredFacts ==
  ASSUME LockInv, NEW t \in Threads,
         thr[t].at = "enter" \/ (thr[t].at = "lock" /\ mutex[thr[t].c] # none)
  PROVE  /\ Entered(t) \in OpType
         /\ Entered(t).at = IF thr[t].at = "lock" THEN "lockwait" ELSE "sys"
         /\ Entered(t).op = thr[t].op /\ Entered(t).c = thr[t].c /\ Entered(t).left = thr[t].left
         /\ Entered(t).call = thr[t].call /\ Entered(t).n = thr[t].n /\ Entered(t).new = thr[t].new
         /\ Entered(t).ret = thr[t].ret
         /\ thr[t].call = "write" =>
              /\ Len(Entered(t).data) = thr[t].n
              /\ \A W : OutWindow(chan[thr[t].c], W) =>
                   Entered(t).data = Positions(chan[thr[t].c].offset, thr[t].n)
<1> DEFINE o == thr[t]
           ch == chan[o.c]
           at == IF o.at = "lock" THEN "lockwait" ELSE "sys"
           bytes == IF o.call = "write" THEN SubSeq(ch.buff \o Positions(pos_out(ch), o.new), 1, o.n)
                    ELSE <<>>
           o1 == [o EXCEPT !.at = at]
           o2 == [o1 EXCEPT !.data = bytes]
<1>1. o \in OpType /\ Ready(ch, o) /\ (o.at = "lock" => o.call = "none") /\ (o.at = "enter" => CallOK(ch, o))
  BY ThreadReady DEF LockInv, ThreadInv, CallPlaces
<1>2. /\ bytes \in Seq(Int)
      /\ o.call = "write" => /\ Len(bytes) = o.n
                             /\ \A W : OutWindow(ch, W) => bytes = Positions(ch.offset, o.n)
  <2>1. CASE o.call = "write"
    <3>1. CallOK(ch, o)
      BY <1>1, <2>1
    <3> HIDE DEF o, ch
    <3> QED BY <1>1, <2>1, <3>1, WriteData
  <2>2. CASE o.call # "write"
    BY <2>2, EmptySeq
  <2> QED BY <2>1, <2>2
<1>3. Entered(t) = o2
  BY DEF Entered
<1> HIDE DEF o, bytes
<1>4. o1 \in OpType /\ at \in Places
  <2>1. at \in Places
    BY DEF Places
  <2> HIDE DEF at
  <2> QED BY <1>1, <2>1, OpUpdate
<1>5. /\ o1.at = at /\ o1.op = o.op /\ o1.c = o.c /\ o1.left = o.left /\ o1.call = o.call
      /\ o1.n = o.n /\ o1.new = o.new /\ o1.ret = o.ret
  BY <1>1 DEF OpType
<1> HIDE DEF o1
<1>6. o2 \in OpType
  BY <1>2, <1>4, OpUpdate
<1>7. /\ o2.at = at /\ o2.op = o.op /\ o2.c = o.c /\ o2.left = o.left /\ o2.call = o.call
      /\ o2.n = o.n /\ o2.new = o.new /\ o2.ret = o.ret /\ o2.data = bytes
  BY <1>4, <1>5 DEF OpType
<1> HIDE DEF o2
<1> QED BY <1>2, <1>3, <1>6, <1>7 DEF o

LEMMA EnterCases ==
  ASSUME LockInv, NEW t \in Threads, Enter(t)
  PROVE  /\ thr[t].at = "enter" \/ (thr[t].at = "lock" /\ mutex[thr[t].c] # none)
         /\ UNCHANGED <<kernel, torn>>
         /\ \/ Moved(t, Entered(t)) /\ UNCHANGED <<chan, locks, sigs>>
            \/ HandlerReturns /\ UNCHANGED <<chan, locks, thr>>
            \/ HandlerRaises /\ caml_raise(t)
<1>1. thr \in [Threads -> OpType]
  BY DEF LockInv, TypeInv
<1> QED BY <1>1 DEF Enter, Entered, Moved

LEMMA SigTypes ==
  ASSUME LockInv
  PROVE  /\ sigs \in [n : Nat, pending : BOOLEAN]
         /\ HandlerReturns => sigs' \in [n : Nat, pending : BOOLEAN]
         /\ HandlerRaises => sigs' \in [n : Nat, pending : BOOLEAN]
         /\ torn \subseteq Chans /\ DOMAIN file = OutChans /\ kpos \in [Chans -> Int]
BY DEF LockInv, TypeInv, HandlerReturns, HandlerRaises

LEMMA EnterKeeps ==
  ASSUME LockInv, NEW t \in Threads, Enter(t)
  PROVE  LockInv'
<1>1. CASE Moved(t, Entered(t)) /\ UNCHANGED <<chan, locks, sigs>>
  <2> DEFINE o == Entered(t)
  <2>1. /\ o \in OpType /\ o.at = IF thr[t].at = "lock" THEN "lockwait" ELSE "sys"
        /\ o.op = thr[t].op /\ o.c = thr[t].c /\ o.left = thr[t].left /\ o.call = thr[t].call
        /\ o.n = thr[t].n /\ o.new = thr[t].new /\ o.ret = thr[t].ret
        /\ thr[t].call = "write" => Len(o.data) = thr[t].n
    BY EnterCases, EnteredFacts
  <2> HIDE DEF o
  <2>2. thr'[t] = o /\ chan' = chan /\ last_channel_locked' = last_channel_locked /\ ThreadInv(t)
    BY <1>1 DEF LockInv, TypeInv, Moved, o, locks
  <2>3. thr[t].n \in Int
    BY DEF LockInv, TypeInv, OpType
  <2>4. (thr[t].at = "enter" \/ thr[t].at = "lock") /\ UNCHANGED <<kernel, torn>>
    BY EnterCases
  <2>5. thr[t].at = "enter" => CallOK(chan[thr[t].c], thr[t])
    BY <2>2 DEF ThreadInv, CallPlaces
  <2>6. o.at = "sys" => CallOK(chan'[o.c], o)
    BY <2>1, <2>2, <2>4, <2>5 DEF CallOK
  <2>7. last_channel_locked'[t] # none => Inside(t, last_channel_locked[t])'
    BY <2>1, <2>2, <2>4 DEF ThreadInv, Inside
  <2>8. ThreadInv(t)'
    BY <2>1, <2>2, <2>3, <2>4, <2>6, <2>7 DEF ThreadInv, CallPlaces
  <2>9. Moved(t, o)
    BY <1>1 DEF o
  <2> QED BY <1>1, <2>1, <2>4, <2>8, <2>9, PlaceKeeps, SigTypes DEF kernel
<1>2. CASE HandlerReturns /\ UNCHANGED <<chan, locks, thr>>
  BY <1>2, EnterCases, SigTypes
     DEF LockInv, TypeInv, LocksReleased, ThreadInv, Inside, locks, kernel
<1>3. CASE HandlerRaises /\ caml_raise(t)
  BY <1>3, EnterCases, SigTypes, RaiseKeeps
<1> QED BY <1>1, <1>2, <1>3, EnterCases

LEMMA MutexLockKeeps ==
  ASSUME LockInv, NEW t \in Threads, MutexLock(t)
  PROVE  LockInv'
<1> DEFINE c == thr[t].c
           o == [thr[t] EXCEPT !.at = "locked"]
<1>1. /\ thr[t].at = "lockwait" /\ mutex[c] = none /\ mutex' = [mutex EXCEPT ![c] = t]
      /\ last_channel_locked' = [last_channel_locked EXCEPT ![t] = c]
      /\ UNCHANGED <<chan, kernel, sigs, torn>>
  BY DEF MutexLock
<1>2. /\ thr \in [Threads -> OpType] /\ mutex \in [Chans -> Threads \cup {none}]
      /\ last_channel_locked \in [Threads -> Chans \cup {none}] /\ TypeInv /\ ThreadInv(t)
  BY DEF LockInv, TypeInv
<1>3. c \in Chans /\ thr[t] \in OpType
  BY <1>1, ThreadReady
<1>4. Moved(t, o)
  BY <1>2 DEF MutexLock, Moved
<1>5. /\ o.at = "locked" /\ o.op = thr[t].op /\ o.c = c /\ o.left = thr[t].left
      /\ o.call = thr[t].call /\ o.ret = thr[t].ret
  BY <1>3 DEF OpType
<1>6. o \in OpType
  BY <1>3, OpUpdate DEF Places
<1> HIDE DEF o
<1>7. LocksReleased'
  BY <1>1, <1>3, <1>4, <1>5, <1>6, LocksAcquire
<1>8. TypeInv'
  <2>1. thr' \in [Threads -> OpType]
    BY <1>2, <1>4, <1>6 DEF Moved
  <2>2. last_channel_locked' \in [Threads -> Chans \cup {none}]
    BY <1>1, <1>2, <1>3
  <2>3. mutex' \in [Chans -> Threads \cup {none}]
    BY <1>1, <1>2, <1>3
  <2> QED BY <1>1, <1>2, <2>1, <2>2, <2>3 DEF TypeInv, kernel
<1>9. ThreadInv(t)'
  <2>1. thr'[t] = o /\ last_channel_locked'[t] = c
    BY <1>1, <1>2, <1>4 DEF Moved
  <2>2. c # none /\ Inside(t, c)'
    BY <1>3, <1>5, <2>1, ChannelSizes DEF Chans, Inside
  <2> QED BY <1>1, <1>2, <1>3, <1>5, <1>6, <2>1, <2>2 DEF ThreadInv, CallPlaces
<1>10. \A u \in Threads \ {t} : last_channel_locked'[u] = last_channel_locked[u]
  BY <1>1, <1>2
<1> QED BY <1>1, <1>4, <1>7, <1>8, <1>9, <1>10, OthersKept

\* The record of a thread whose system call has returned k.
Returned(t, k) == [[[thr[t] EXCEPT !.at = "leave"] EXCEPT !.ret = k] EXCEPT !.data = <<>>]

LEMMA ReturnedFacts ==
  ASSUME LockInv, NEW t \in Threads, NEW k \in Int
  PROVE  /\ Return(t, k) => Moved(t, Returned(t, k))
         /\ Returned(t, k) \in OpType
         /\ Returned(t, k).at = "leave" /\ Returned(t, k).ret = k
         /\ Returned(t, k).op = thr[t].op /\ Returned(t, k).c = thr[t].c
         /\ Returned(t, k).left = thr[t].left /\ Returned(t, k).call = thr[t].call
         /\ Returned(t, k).n = thr[t].n /\ Returned(t, k).new = thr[t].new
<1> DEFINE o == thr[t]
           o1 == [o EXCEPT !.at = "leave"]
           o2 == [o1 EXCEPT !.ret = k]
           o3 == [o2 EXCEPT !.data = <<>>]
<1>1. o \in OpType /\ thr \in [Threads -> OpType]
  BY DEF LockInv, TypeInv
<1>2. Return(t, k) => Moved(t, Returned(t, k))
  BY <1>1 DEF Return, Moved, Returned
<1>3. Returned(t, k) = o3
  BY DEF Returned
<1> HIDE DEF o
<1>4. o1 \in OpType
  BY <1>1, OpUpdate DEF Places
<1>5. /\ o1.at = "leave" /\ o1.op = o.op /\ o1.c = o.c /\ o1.left = o.left /\ o1.call = o.call
      /\ o1.n = o.n /\ o1.new = o.new
  BY <1>1 DEF OpType
<1> HIDE DEF o1
<1>6. o2 \in OpType
  BY <1>4, OpUpdate
<1>7. /\ o2.at = "leave" /\ o2.op = o.op /\ o2.c = o.c /\ o2.left = o.left /\ o2.call = o.call
      /\ o2.n = o.n /\ o2.new = o.new /\ o2.ret = k
  BY <1>4, <1>5 DEF OpType
<1> HIDE DEF o2
<1>8. o3 \in OpType
  BY <1>6, OpUpdate, EmptySeq
<1>9. /\ o3.at = "leave" /\ o3.op = o.op /\ o3.c = o.c /\ o3.left = o.left /\ o3.call = o.call
      /\ o3.n = o.n /\ o3.new = o.new /\ o3.ret = k
  BY <1>6, <1>7 DEF OpType
<1> HIDE DEF o3
<1> QED BY <1>2, <1>3, <1>8, <1>9 DEF o

\* The answers that the kernel may give, and what each does to the file.
LEMMA SysCallCases ==
  ASSUME LockInv, NEW t \in Threads, SysCall(t)
  PROVE  /\ thr[t].at = "sys" /\ UNCHANGED <<chan, locks, sigs, torn>>
         /\ \E k \in Int :
              /\ Return(t, k)
              /\ \/ /\ k \in {EINTR, EAGAIN, EIO} /\ UNCHANGED kernel
                    /\ k = EINTR => thr[t].call # "lseek"
                    /\ k = EAGAIN => thr[t].call = "write"
                 \/ /\ chan[thr[t].c].fd = "open" /\ thr[t].call = "write" /\ k \in 1 .. Len(thr[t].data)
                    /\ file' = [file EXCEPT ![thr[t].c] =
                         [i \in DOMAIN file[thr[t].c] \cup (kpos[thr[t].c] + 1 .. kpos[thr[t].c] + k) |->
                            IF i - kpos[thr[t].c] \in 1 .. k THEN thr[t].data[i - kpos[thr[t].c]]
                            ELSE file[thr[t].c][i]]]
                    /\ kpos' = [kpos EXCEPT ![thr[t].c] = kpos[thr[t].c] + k]
                 \/ /\ chan[thr[t].c].fd = "open" /\ thr[t].call = "read" /\ k \in 0 .. thr[t].n
                    /\ kpos' = [kpos EXCEPT ![thr[t].c] = kpos[thr[t].c] + k] /\ UNCHANGED file
                 \/ /\ chan[thr[t].c].fd = "open" /\ thr[t].call = "lseek" /\ k = 0
                    /\ kpos' = [kpos EXCEPT ![thr[t].c] = thr[t].left] /\ UNCHANGED file
<1> DEFINE o == thr[t]
           c == o.c
<1>1. o.at = "sys" /\ UNCHANGED <<chan, locks, sigs, torn>>
  BY DEF SysCall
<1>2. c \in Chans /\ o \in OpType
  BY <1>1, ThreadReady
<1>3. /\ DOMAIN file = OutChans /\ kpos \in [Chans -> Int] /\ (o.call = "write" => c \in OutChans)
      /\ o.data \in Seq(Int) /\ Len(o.data) \in Nat /\ o.n \in Int
  <2>1. CallOK(chan[c], o) /\ (o.op \in OutOps <=> c \in OutChans)
    BY <1>1, ThreadReady DEF LockInv, ThreadInv, CallPlaces
  <2> QED BY <1>2, <2>1, SigTypes DEF OpType, CallOK
<1>4. {EINTR, EAGAIN, EIO} \subseteq Int
  BY DEF EINTR, EAGAIN, EIO
<1>5. CASE \/ sigs.pending /\ o.call # "lseek" /\ Return(t, EINTR) /\ UNCHANGED kernel
           \/ o.call = "write" /\ Return(t, EAGAIN) /\ UNCHANGED kernel
           \/ Return(t, EIO) /\ UNCHANGED kernel
  BY <1>1, <1>4, <1>5 DEF EINTR, EAGAIN, EIO
<1>6. CASE /\ chan[c].fd = "open" /\ o.call = "write"
           /\ \E k \in 1 .. Len(o.data) :
                /\ file' = [file EXCEPT ![c] = [i \in DOMAIN @ \cup (kpos[c] + 1 .. kpos[c] + k) |->
                             IF i - kpos[c] \in 1 .. k THEN o.data[i - kpos[c]] ELSE @[i]]]
                /\ kpos' = [kpos EXCEPT ![c] = @ + k] /\ Return(t, k)
  <2>1. PICK k \in 1 .. Len(o.data) :
          /\ file' = [file EXCEPT ![c] = [i \in DOMAIN file[c] \cup (kpos[c] + 1 .. kpos[c] + k) |->
                       IF i - kpos[c] \in 1 .. k THEN o.data[i - kpos[c]] ELSE file[c][i]]]
          /\ kpos' = [kpos EXCEPT ![c] = kpos[c] + k] /\ Return(t, k)
    BY <1>6
  <2>2. k \in Int
    BY <1>3
  <2> QED BY <1>1, <1>6, <2>1, <2>2
<1>7. CASE /\ chan[c].fd = "open" /\ o.call = "read"
           /\ \E k \in 0 .. o.n :
                /\ k + kpos[c] <= FileSize /\ (k = 0 => kpos[c] = FileSize)
                /\ kpos' = [kpos EXCEPT ![c] = @ + k] /\ UNCHANGED file /\ Return(t, k)
  <2>1. PICK k \in 0 .. o.n :
          kpos' = [kpos EXCEPT ![c] = kpos[c] + k] /\ UNCHANGED file /\ Return(t, k)
    BY <1>7
  <2>2. k \in Int
    BY <1>3
  <2> QED BY <1>1, <1>7, <2>1, <2>2
<1>8. CASE /\ chan[c].fd = "open" /\ o.call = "lseek"
           /\ kpos' = [kpos EXCEPT ![c] = o.left] /\ UNCHANGED file /\ Return(t, 0)
  BY <1>1, <1>8
<1> QED BY <1>5, <1>6, <1>7, <1>8 DEF SysCall

LEMMA SysCallKeeps ==
  ASSUME LockInv, NEW t \in Threads, SysCall(t)
  PROVE  LockInv'
<1> DEFINE c == thr[t].c
<1>1. thr[t].at = "sys" /\ UNCHANGED <<chan, locks, sigs, torn>>
  BY SysCallCases
<1> DEFINE Answer(k) ==
             /\ DOMAIN file' = OutChans /\ kpos' \in [Chans -> Int]
             /\ thr[t].call \in {"write", "read"} => k <= thr[t].n
             /\ k < 0 => k \in {EINTR, EAGAIN, EIO}
             /\ k = EAGAIN => thr[t].call = "write"
             /\ thr[t].call = "write" => k # 0
             /\ thr[t].call = "lseek" => k \in {0, EIO}
<1>2. PICK k \in Int : Return(t, k) /\ Answer(k)
  <2>1. /\ DOMAIN file = OutChans /\ kpos \in [Chans -> Int] /\ c \in Chans /\ thr[t].left \in Int
        /\ thr[t].n \in Int /\ Len(thr[t].data) \in Nat /\ CallOK(chan[c], thr[t])
        /\ thr[t].call = "write" => Len(thr[t].data) <= thr[t].n
    BY <1>1, ThreadReady, SigTypes DEF LockInv, ThreadInv, CallPlaces, OpType
  <2>2. thr[t].call \in {"write", "read"} => thr[t].n >= 0
    <3>1. Len(chan[c].buff) \in 0 .. IO_BUFFER_SIZE
      BY <2>1, BuffLen DEF LockInv, TypeInv
    <3> QED BY <2>1, <3>1, BufferSize DEF CallOK
  <2>3. PICK k \in Int :
          /\ Return(t, k)
          /\ \/ /\ k \in {EINTR, EAGAIN, EIO} /\ UNCHANGED kernel
                /\ k = EINTR => thr[t].call # "lseek"
                /\ k = EAGAIN => thr[t].call = "write"
             \/ /\ thr[t].call = "write" /\ k \in 1 .. Len(thr[t].data)
                /\ DOMAIN file' = DOMAIN file /\ kpos' = [kpos EXCEPT ![c] = kpos[c] + k]
             \/ /\ thr[t].call = "read" /\ k \in 0 .. thr[t].n
                /\ kpos' = [kpos EXCEPT ![c] = kpos[c] + k] /\ UNCHANGED file
             \/ /\ thr[t].call = "lseek" /\ k = 0
                /\ kpos' = [kpos EXCEPT ![c] = thr[t].left] /\ UNCHANGED file
    BY SysCallCases
  <2>4. CASE k \in {EINTR, EAGAIN, EIO} /\ UNCHANGED kernel
             /\ (k = EINTR => thr[t].call # "lseek") /\ (k = EAGAIN => thr[t].call = "write")
    BY <2>1, <2>2, <2>3, <2>4 DEF EINTR, EAGAIN, EIO, kernel
  <2>5. CASE /\ thr[t].call = "write" /\ k \in 1 .. Len(thr[t].data)
             /\ DOMAIN file' = DOMAIN file /\ kpos' = [kpos EXCEPT ![c] = kpos[c] + k]
    BY <2>1, <2>3, <2>5 DEF EAGAIN
  <2>6. CASE /\ thr[t].call = "read" /\ k \in 0 .. thr[t].n
             /\ kpos' = [kpos EXCEPT ![c] = kpos[c] + k] /\ UNCHANGED file
    BY <2>1, <2>3, <2>6 DEF EAGAIN
  <2>7. CASE /\ thr[t].call = "lseek" /\ k = 0
             /\ kpos' = [kpos EXCEPT ![c] = thr[t].left] /\ UNCHANGED file
    BY <2>1, <2>3, <2>7 DEF EAGAIN
  <2> QED BY <2>3, <2>4, <2>5, <2>6, <2>7
<1> DEFINE o == Returned(t, k)
<1>3. /\ Moved(t, o) /\ o \in OpType /\ o.at = "leave" /\ o.ret = k /\ o.op = thr[t].op
      /\ o.c = c /\ o.left = thr[t].left /\ o.call = thr[t].call /\ o.n = thr[t].n
      /\ o.new = thr[t].new
  BY <1>2, ReturnedFacts
<1> HIDE DEF o
<1>4. /\ thr'[t] = o /\ chan' = chan /\ last_channel_locked' = last_channel_locked
      /\ ThreadInv(t)
  BY <1>1, <1>3 DEF LockInv, TypeInv, Moved, locks
<1>5. CallOK(chan'[o.c], o)
  BY <1>1, <1>3, <1>4 DEF ThreadInv, CallPlaces, CallOK
<1>6. last_channel_locked'[t] # none => Inside(t, last_channel_locked[t])'
  BY <1>1, <1>3, <1>4 DEF ThreadInv, Inside
<1>7. ThreadInv(t)'
  BY <1>1, <1>2, <1>3, <1>4, <1>5, <1>6 DEF ThreadInv, CallPlaces
<1>8. sigs' \in [n : Nat, pending : BOOLEAN]
  BY <1>1, SigTypes
<1> QED BY <1>1, <1>2, <1>3, <1>7, <1>8, PlaceKeeps

LEMMA LeaveKeeps ==
  ASSUME LockInv, NEW t \in Threads, Leave(t)
  PROVE  LockInv'
<1>1. thr[t].at \in {"locked", "leave"} /\ UNCHANGED kernel
  BY DEF Leave
<1>2. thr[t].c \in Chans
  BY <1>1, ThreadReady
<1>3. torn' \subseteq Chans /\ sigs' \in [n : Nat, pending : BOOLEAN]
  BY <1>2, SigTypes DEF Leave
<1>4. CASE Proceed(t, Resumed(t))
  BY <1>1, <1>3, <1>4, ResumedOutcome, ProceedKeeps
<1>5. CASE caml_raise(t)
  BY <1>1, <1>3, <1>5, RaiseKeeps
<1> QED BY <1>4, <1>5 DEF Leave

LEMMA CloseKeeps ==
  ASSUME LockInv, NEW t \in Threads, caml_ml_close_channel(t)
  PROVE  LockInv'
<1>1. PICK c \in Chans : chan[c].fd = "open" /\ chan' = [chan EXCEPT ![c] = Closed(chan[c])]
  BY DEF caml_ml_close_channel
<1>2. UNCHANGED <<kernel, locks, thr, sigs, torn>>
  BY DEF caml_ml_close_channel
<1> DEFINE d == Closed(chan[c])
<1>3. chan \in [Chans -> ChanType] /\ chan[c] \in ChanType /\ TypeInv
  BY DEF LockInv, TypeInv
<1>4. Junk(IO_BUFFER_SIZE) \in Seq(Int) /\ Len(Junk(IO_BUFFER_SIZE)) = IO_BUFFER_SIZE
  <2>1. Junk(IO_BUFFER_SIZE) \in [1 .. IO_BUFFER_SIZE -> Int]
    BY DEF Junk
  <2>2. Junk(IO_BUFFER_SIZE) \in Seq(Int)
    BY <2>1, BufferSize, SeqDef
  <2> QED BY <2>1, <2>2, BufferSize, LenProperties
<1>5. /\ d \in ChanType /\ d.fd = "closed" /\ d.buff = Junk(IO_BUFFER_SIZE)
  <2> DEFINE d1 == [chan[c] EXCEPT !.fd = "closed"]
             d2 == [d1 EXCEPT !.buff = Junk(IO_BUFFER_SIZE)]
             d3 == [d2 EXCEPT !.curr = IO_BUFFER_SIZE]
  <2>1. d = d3
    BY DEF Closed
  <2> HIDE DEF d
  <2>2. d1 \in ChanType /\ d1.fd = "closed"
    BY <1>3 DEF ChanType
  <2> HIDE DEF d1
  <2>3. d2 \in ChanType /\ d2.fd = "closed" /\ d2.buff = Junk(IO_BUFFER_SIZE)
    BY <1>4, <2>2 DEF ChanType
  <2> HIDE DEF d2
  <2>4. d3 \in ChanType /\ d3.fd = "closed" /\ d3.buff = Junk(IO_BUFFER_SIZE)
    BY <2>3, BufferSize DEF ChanType
  <2> QED BY <2>1, <2>4
<1> HIDE DEF d
<1>6. Sized(d)
  BY <1>4, <1>5, BufferSize DEF Sized
<1>7. \A b \in Chans : chan'[b] = IF b = c THEN d ELSE chan[b]
  BY <1>1, <1>3 DEF d
<1>8. TypeInv'
  <2>1. chan' \in [Chans -> ChanType]
    BY <1>1, <1>3, <1>5 DEF d
  <2> QED BY <1>2, <1>3, <1>6, <1>7, <2>1 DEF TypeInv, kernel, locks
<1>9. LocksReleased'
  BY <1>2 DEF LockInv, LocksReleased, Inside, locks
<1>10. ASSUME NEW u \in Threads
       PROVE  ThreadInv(u)'
  <2>1. ThreadInv(u) /\ thr'[u] = thr[u] /\ last_channel_locked'[u] = last_channel_locked[u]
    BY <1>2 DEF LockInv, locks
  <2>2. ASSUME thr[u].at \in CallPlaces
        PROVE  CallOK(chan'[thr[u].c], thr[u])
    <3>1. CallOK(chan[thr[u].c], thr[u])
      BY <2>1, <2>2 DEF ThreadInv
    <3>2. thr[u].c \in Chans /\ Sized(chan[thr[u].c]) /\ thr[u].n \in Int
      BY <2>2, ThreadReady DEF CallPlaces, LockInv, TypeInv, OpType
    <3>3. CASE thr[u].c # c
      BY <1>7, <3>1, <3>2, <3>3
    <3>4. CASE thr[u].c = c
      <4>1. chan'[thr[u].c] = d /\ Len(d.buff) = IO_BUFFER_SIZE /\ d.fd # "open"
        BY <1>4, <1>5, <1>7, <3>2, <3>4
      <4>2. Len(chan[thr[u].c].buff) \in 0 .. IO_BUFFER_SIZE
        BY <3>2, BuffLen
      <4> QED BY <3>1, <3>2, <4>1, <4>2, BufferSize DEF CallOK
    <3> QED BY <3>3, <3>4
  <2> QED BY <2>1, <2>2 DEF ThreadInv, Inside
<1> QED BY <1>8, <1>9, <1>10 DEF LockInv

LEMMA LockInit ==
  ChannelInit => LockInv
<1> SUFFICES ASSUME ChannelInit PROVE LockInv
  OBVIOUS
<1>1. PICK open \in SUBSET Chans :
        chan = [c \in Chans |-> [Opened EXCEPT !.fd = IF c \in open THEN "open" ELSE "unused"]]
  BY DEF ChannelInit
<1>2. ASSUME NEW c \in Chans
      PROVE  /\ chan[c] \in ChanType /\ chan[c].buff = <<>> /\ chan[c].offset = 0
             /\ chan[c].curr = 0 /\ chan[c].given = {}
  <2> DEFINE fd == IF c \in open THEN "open" ELSE "unused"
  <2>1. chan[c] = [Opened EXCEPT !.fd = fd] /\ fd \in {"open", "closed", "unused"}
    BY <1>1
  <2>2. /\ Opened \in ChanType /\ Opened.buff = <<>> /\ Opened.offset = 0
        /\ Opened.curr = 0 /\ Opened.given = {}
    BY EmptySeq DEF Opened, ChanType
  <2> HIDE DEF fd
  <2>3. [Opened EXCEPT !.fd = fd] \in ChanType
    BY <2>1, <2>2 DEF ChanType
  <2>4. LET d == [Opened EXCEPT !.fd = fd]
        IN d.buff = <<>> /\ d.offset = 0 /\ d.curr = 0 /\ d.given = {}
    BY DEF Opened
  <2> QED BY <2>1, <2>3, <2>4
<1>3. chan \in [Chans -> ChanType] /\ \A c \in Chans : Sized(chan[c])
  <2>1. chan = [c \in Chans |-> chan[c]]
    BY <1>1
  <2>2. chan \in [Chans -> ChanType]
    BY <1>2, <2>1
  <2> QED BY <1>2, <2>2, EmptySeq, BufferSize DEF Sized
<1>4. TypeInv
  BY <1>3, IdleTyped DEF ChannelInit, TypeInv
<1>5. \A t \in Threads : thr[t] = Idle /\ last_channel_locked[t] = none
  BY DEF ChannelInit
<1>6. LocksReleased
  BY <1>5, IdleTyped DEF ChannelInit, LocksReleased, Inside
<1>7. \A t \in Threads : ThreadInv(t)
  BY <1>5, IdleTyped DEF ThreadInv, CallPlaces
<1> QED BY <1>4, <1>6, <1>7 DEF LockInv

LEMMA LockStep ==
  LockInv /\ [ChannelNext]_vars => LockInv'
<1> SUFFICES ASSUME LockInv, [ChannelNext]_vars PROVE LockInv'
  OBVIOUS
<1>1. ASSUME NEW t \in Threads, Begin(t) \/ ThreadStep(t) \/ caml_ml_close_channel(t)
      PROVE  LockInv'
  BY <1>1, BeginKeeps, TryLockKeeps, EnterKeeps, MutexLockKeeps, SysCallKeeps, LeaveKeeps, CloseKeeps
     DEF ThreadStep
<1>2. CASE caml_record_signal
  <2>1. sigs' \in [n : Nat, pending : BOOLEAN]
    BY <1>2, SigTypes DEF caml_record_signal
  <2> QED BY <1>2, <2>1
          DEF caml_record_signal, LockInv, TypeInv, LocksReleased, ThreadInv, Inside, kernel, locks
<1>3. CASE UNCHANGED vars
  BY <1>3 DEF vars, LockInv, TypeInv, LocksReleased, ThreadInv, Inside
<1> QED BY <1>1, <1>2, <1>3 DEF ChannelNext

\* io.c, st_stubs.c: a thread inside an operation on a channel, and no other, owns its mutex
\* and would release it if an exception were raised.
THEOREM ChannelLocks == ChannelSpec => []LocksReleased
<1>1. LockInv => LocksReleased
  BY DEF LockInv
<1> QED BY <1>1, LockInit, LockStep, PTL DEF ChannelSpec
-----------------------------------------------------------------------------
(* Buffers.                                                                 *)

FilesExact == \A c \in OutChans \ torn : \A i \in DOMAIN file[c] : i \in Int /\ file[c][i] = i

\* A channel that a step leaves alone.
LEMMA OpenFrame ==
  ASSUME NEW c \in Chans, OpenInv(c), chan'[c] = chan[c], kpos'[c] = kpos[c],
         c \in OutChans => file'[c] = file[c], mutex'[c] = mutex[c],
         \A u \in Threads : Inside(u, c)' => thr'[u] = thr[u]
  PROVE  OpenInv(c)'
<1>1. Wrote(c)' = Wrote(c)
  BY DEF Wrote
<1>2. \A u \in Threads : Inside(u, c)' => Inside(u, c) /\ thr'[u] = thr[u]
  BY DEF Inside
<1> DEFINE P(o) == /\ KernelAt(chan[c], o, kpos[c], Wrote(c))
                   /\ o.at \in CallPlaces => OpenCall(chan[c], o)
                   /\ o.at = "sys" /\ o.call = "write" => o.data = Positions(chan[c].offset, o.n)
<1>3. \A u \in Threads : Inside(u, c) => P(thr[u])
  BY DEF OpenInv
<1>4. ASSUME NEW u \in Threads, Inside(u, c)'
      PROVE  /\ KernelAt(chan'[c], thr'[u], kpos'[c], Wrote(c)')
             /\ thr'[u].at \in CallPlaces => OpenCall(chan'[c], thr'[u])
             /\ thr'[u].at = "sys" /\ thr'[u].call = "write" =>
                  thr'[u].data = Positions(chan'[c].offset, thr'[u].n)
  <2>1. thr'[u] = thr[u] /\ P(thr[u])
    BY <1>2, <1>3, <1>4
  <2> QED BY <1>1, <2>1
<1>5. /\ IF c \in OutChans THEN OutWindow(chan'[c], Wrote(c)') ELSE InWindow(chan'[c])
      /\ mutex'[c] = none => kpos'[c] = chan'[c].offset
  BY <1>1 DEF OpenInv
<1> QED BY <1>4, <1>5 DEF OpenInv

\* A channel that a thread is left to use.
LEMMA OpenOwn ==
  ASSUME LockInv', NEW c \in Chans, NEW t \in Threads, Inside(t, c)',
         IF c \in OutChans THEN OutWindow(chan'[c], Wrote(c)') ELSE InWindow(chan'[c]),
         KernelAt(chan'[c], thr'[t], kpos'[c], Wrote(c)'),
         thr'[t].at \in CallPlaces => OpenCall(chan'[c], thr'[t]),
         thr'[t].at = "sys" /\ thr'[t].call = "write" =>
           thr'[t].data = Positions(chan'[c].offset, thr'[t].n)
  PROVE  OpenInv(c)'
<1>1. mutex'[c] = t /\ t # none
  BY ChannelSizes DEF LockInv, LocksReleased
<1>2. \A u \in Threads : Inside(u, c)' => u = t
  BY <1>1 DEF LockInv, LocksReleased
<1> QED BY <1>1, <1>2 DEF OpenInv

\* A channel that no thread is left to use.
LEMMA OpenFree ==
  ASSUME LockInv', NEW c \in Chans, mutex'[c] = none,
         IF c \in OutChans THEN OutWindow(chan'[c], Wrote(c)') ELSE InWindow(chan'[c]),
         kpos'[c] = chan'[c].offset
  PROVE  OpenInv(c)'
<1>1. \A u \in Threads : ~Inside(u, c)'
  BY ChannelSizes DEF LockInv, LocksReleased
<1> QED BY <1>1 DEF OpenInv

\* The channels other than the one of the thread that takes a step.
LEMMA OtherChannels ==
  ASSUME LockInv, LockInv', NEW t \in Threads, NEW o, Moved(t, o), NEW c \in Chans, OpenInv(c),
         o.c = none \/ o.c # c, thr[t].c # c,
         chan'[c] = chan[c], kpos'[c] = kpos[c], c \in OutChans => file'[c] = file[c],
         mutex'[c] = mutex[c]
  PROVE  OpenInv(c)'
<1>1. thr \in [Threads -> OpType] /\ c # none
  BY ChannelSizes DEF LockInv, TypeInv, Chans
<1>2. \A u \in Threads : Inside(u, c)' => thr'[u] = thr[u]
  BY <1>1 DEF Inside, Moved
<1> QED BY <1>2, OpenFrame

\* caml_raise, where no byte has been transferred.
LEMMA RaiseBuffers ==
  ASSUME LockInv, LockInv', NEW t \in Threads, thr[t].at # "idle", caml_raise(t), UNCHANGED kernel,
         NEW c \in Chans, OpenInv(c),
         Inside(t, c) => kpos[c] = chan[c].offset
  PROVE  OpenInv(c)'
<1>1. /\ thr \in [Threads -> OpType] /\ mutex \in [Chans -> Threads \cup {none}]
      /\ last_channel_locked[t] \in Chans \cup {none} /\ c # none
  BY ChannelSizes DEF LockInv, TypeInv, Chans
<1>2. chan' = chan /\ kpos' = kpos /\ file' = file /\ Moved(t, Idle) /\ Wrote(c)' = Wrote(c)
  BY DEF caml_raise, kernel, Moved, Wrote
<1>3. CASE Inside(t, c)
  <2>1. last_channel_locked[t] = c
    BY <1>3, Owner
  <2>2. mutex'[c] = none
    BY <1>1, <2>1 DEF caml_raise, Unlocked
  <2> QED BY <1>2, <1>3, <2>2, OpenFree DEF OpenInv
<1>4. CASE ~Inside(t, c)
  <2>1. last_channel_locked[t] # c
    BY <1>4, Owner
  <2>2. mutex'[c] = mutex[c]
    BY <1>1, <2>1 DEF caml_raise, Unlocked
  <2>3. \A u \in Threads : Inside(u, c)' => thr'[u] = thr[u]
    BY <1>1, <1>2, IdleTyped DEF Inside, Moved
  <2> QED BY <1>2, <2>2, <2>3, OpenFrame
<1> QED BY <1>3, <1>4

LEMMA BeginBuffers ==
  ASSUME LockInv, LockInv', NEW t \in Threads, Begin(t), NEW c \in Chans, OpenInv(c)
  PROVE  OpenInv(c)'
<1>1. UNCHANGED <<chan, kernel, locks>>
  BY DEF Begin
<1>2. thr \in [Threads -> OpType]
  BY DEF LockInv, TypeInv
<1>3. PICK o : Moved(t, o) /\ o.at = "lock"
  <2>1. PICK d \in Chans : \E q \in Ops(d) :
          thr' = [thr EXCEPT ![t] = [Idle EXCEPT !.op = q.op, !.left = q.left, !.c = d, !.at = "lock"]]
    BY DEF Begin
  <2>2. PICK q \in Ops(d) :
          thr' = [thr EXCEPT ![t] = [Idle EXCEPT !.op = q.op, !.left = q.left, !.c = d, !.at = "lock"]]
    BY <2>1
  <2> DEFINE o == [Idle EXCEPT !.op = q.op, !.left = q.left, !.c = d, !.at = "lock"]
  <2>3. o.at = "lock"
    BY DEF Idle
  <2>4. Moved(t, o)
    BY <2>2 DEF Moved
  <2> HIDE DEF o
  <2> QED BY <2>3, <2>4
<1>4. \A u \in Threads : Inside(u, c)' => thr'[u] = thr[u]
  BY <1>2, <1>3 DEF Inside, Moved
<1> QED BY <1>1, <1>4, OpenFrame DEF kernel, locks

LEMMA TryLockBuffers ==
  ASSUME LockInv, LockInv', NEW t \in Threads, TryLock(t), NEW c \in Chans, OpenInv(c)
  PROVE  OpenInv(c)'
<1> DEFINE d == thr[t].c
           r == Run(chan[d], thr[t])
<1>1. /\ thr[t].at = "lock" /\ mutex[d] = none /\ chan' = [chan EXCEPT ![d] = r.ch]
      /\ UNCHANGED <<kernel, sigs, torn>>
  BY DEF TryLock
<1>2. /\ thr \in [Threads -> OpType] /\ mutex \in [Chans -> Threads \cup {none}]
      /\ chan \in [Chans -> ChanType]
  BY DEF LockInv, TypeInv
<1>3. d \in Chans /\ Ready(chan[d], thr[t]) /\ (thr[t].op \in OutOps <=> d \in OutChans)
  BY <1>1, ThreadReady
<1>4. Keeps(r, chan[d], thr[t])
  BY <1>3, RunKeeps
<1>5. /\ r.o.at = "done" => Moved(t, Idle) /\ UNCHANGED mutex
      /\ r.o.at # "done" => Moved(t, r.o) /\ mutex' = [mutex EXCEPT ![d] = t]
  BY DEF TryLock, Moved
<1> HIDE DEF r
<1>6. r.o.at \in {"done", "enter"} /\ r.o.c = d
  BY <1>4 DEF Keeps, Outcome
<1>7. kpos' = kpos /\ file' = file
  BY <1>1 DEF kernel
<1>8. CASE c # d
  <2>1. chan'[c] = chan[c] /\ mutex'[c] = mutex[c]
    BY <1>1, <1>2, <1>3, <1>5, <1>8
  <2> QED BY <1>5, <1>6, <1>7, <1>8, <2>1, OtherChannels, IdleTyped
<1>9. CASE c = d
  <2>1. /\ kpos[c] = chan[c].offset
        /\ Window(chan[c], thr[t].op, Wrote(c))
    BY <1>1, <1>3, <1>9 DEF OpenInv, Window
  <2>2. OpenOutcome(r, chan[c].offset, thr[t].op, Wrote(c))
    BY <1>4, <1>9, <2>1 DEF Keeps
  <2>3. chan'[c] = r.ch /\ Wrote(c)' = Wrote(c)
    BY <1>1, <1>2, <1>7, <1>9 DEF Wrote
  <2>4. /\ IF c \in OutChans THEN OutWindow(chan'[c], Wrote(c)') ELSE InWindow(chan'[c])
        /\ kpos'[c] = chan'[c].offset
        /\ r.o.at = "enter" => OpenCall(chan'[c], r.o)
    BY <1>3, <1>7, <1>9, <2>1, <2>2, <2>3 DEF OpenOutcome, Window
  <2>5. CASE r.o.at = "done"
    <3>1. mutex'[c] = none
      BY <1>1, <1>5, <1>9, <2>5
    <3> QED BY <2>4, <3>1, OpenFree
  <2>6. CASE r.o.at = "enter"
    <3>1. thr'[t] = r.o
      BY <1>2, <1>5, <2>6 DEF Moved
    <3>2. Inside(t, c)' /\ KernelAt(chan'[c], thr'[t], kpos'[c], Wrote(c)')
      BY <1>6, <1>9, <2>4, <2>6, <3>1 DEF Inside, KernelAt
    <3> QED BY <2>4, <2>6, <3>1, <3>2, OpenOwn
  <2> QED BY <1>6, <2>5, <2>6
<1> QED BY <1>8, <1>9

LEMMA EnterBuffers ==
  ASSUME LockInv, LockInv', NEW t \in Threads, Enter(t), NEW c \in Chans, OpenInv(c)
  PROVE  OpenInv(c)'
<1>1. thr \in [Threads -> OpType]
  BY DEF LockInv, TypeInv
<1>2. /\ thr[t].at = "enter" \/ thr[t].at = "lock"
      /\ kpos' = kpos /\ file' = file /\ Wrote(c)' = Wrote(c)
  BY EnterCases DEF kernel, Wrote
<1>3. CASE Moved(t, Entered(t)) /\ UNCHANGED <<chan, locks, sigs>>
  <2> DEFINE o == Entered(t)
  <2>1. /\ o.at = IF thr[t].at = "lock" THEN "lockwait" ELSE "sys"
        /\ o.op = thr[t].op /\ o.c = thr[t].c /\ o.call = thr[t].call
        /\ o.n = thr[t].n /\ o.new = thr[t].new
        /\ thr[t].call = "write" => \A W : OutWindow(chan[thr[t].c], W) =>
                                      o.data = Positions(chan[thr[t].c].offset, thr[t].n)
    BY EnterCases, EnteredFacts
  <2>2. thr'[t] = o /\ Moved(t, o) /\ mutex' = mutex /\ chan' = chan
    BY <1>1, <1>3 DEF Moved, locks
  <2> HIDE DEF o
  <2>3. CASE Inside(t, c)
    <3>1. thr[t].at = "enter" /\ thr[t].c = c
      BY <1>2, <2>3 DEF Inside
    <3>2. /\ KernelAt(chan[c], thr[t], kpos[c], Wrote(c)) /\ OpenCall(chan[c], thr[t])
          /\ IF c \in OutChans THEN OutWindow(chan[c], Wrote(c)) ELSE InWindow(chan[c])
      BY <2>3, <3>1 DEF OpenInv, CallPlaces
    <3>3. Inside(t, c)' /\ o.at = "sys"
      BY <2>1, <2>2, <3>1 DEF Inside
    <3>4. KernelAt(chan'[c], thr'[t], kpos'[c], Wrote(c)')
      BY <1>2, <2>2, <3>1, <3>2, <3>3 DEF KernelAt
    <3>5. OpenCall(chan'[c], thr'[t])
      BY <2>1, <2>2, <3>2 DEF OpenCall
    <3>6. thr[t].call = "write" => c \in OutChans
      BY <3>1, ThreadReady DEF LockInv, ThreadInv, CallPlaces, CallOK
    <3>7. thr'[t].call = "write" => thr'[t].data = Positions(chan'[c].offset, thr'[t].n)
      BY <2>1, <2>2, <3>1, <3>2, <3>6
    <3> QED BY <1>2, <2>2, <3>2, <3>3, <3>4, <3>5, <3>7, OpenOwn
  <2>4. CASE ~Inside(t, c)
    <3>1. ~Inside(t, c)'
      BY <1>2, <2>1, <2>2, <2>4 DEF Inside
    <3>2. \A u \in Threads : Inside(u, c)' => thr'[u] = thr[u]
      BY <1>1, <2>2, <3>1 DEF Moved
    <3> QED BY <1>2, <2>2, <3>2, OpenFrame
  <2> QED BY <2>3, <2>4
<1>4. CASE HandlerReturns /\ UNCHANGED <<chan, locks, thr>>
  BY <1>2, <1>4, OpenFrame DEF locks
<1>5. CASE HandlerRaises /\ caml_raise(t)
  <2>1. Inside(t, c) => kpos[c] = chan[c].offset
    BY <1>2 DEF OpenInv, KernelAt, Inside
  <2> QED BY <1>2, <1>5, <2>1, EnterCases, RaiseBuffers
<1> QED BY <1>3, <1>4, <1>5, EnterCases

LEMMA MutexLockBuffers ==
  ASSUME LockInv, LockInv', NEW t \in Threads, MutexLock(t), NEW c \in Chans, OpenInv(c)
  PROVE  OpenInv(c)'
<1> DEFINE o == [thr[t] EXCEPT !.at = "locked"]
<1>1. /\ thr[t].at = "lockwait" /\ mutex[thr[t].c] = none
      /\ mutex' = [mutex EXCEPT ![thr[t].c] = t]
      /\ chan' = chan /\ kpos' = kpos /\ file' = file /\ Wrote(c)' = Wrote(c)
  BY DEF MutexLock, kernel, Wrote
<1>2. thr \in [Threads -> OpType] /\ mutex \in [Chans -> Threads \cup {none}] /\ thr[t].c \in Chans
  BY <1>1, ThreadReady DEF LockInv, TypeInv
<1>3. Moved(t, o) /\ thr'[t] = o /\ o.at = "locked" /\ o.c = thr[t].c
  BY <1>2 DEF MutexLock, Moved, OpType
<1> HIDE DEF o
<1>4. CASE c # thr[t].c
  BY <1>1, <1>2, <1>3, <1>4, OtherChannels
<1>5. CASE c = thr[t].c
  <2>1. /\ IF c \in OutChans THEN OutWindow(chan'[c], Wrote(c)') ELSE InWindow(chan'[c])
        /\ kpos'[c] = chan'[c].offset
    BY <1>1, <1>5 DEF OpenInv
  <2>2. Inside(t, c)' /\ KernelAt(chan'[c], thr'[t], kpos'[c], Wrote(c)')
    BY <1>3, <1>5, <2>1 DEF Inside, KernelAt
  <2> QED BY <1>3, <2>1, <2>2, OpenOwn DEF CallPlaces
<1> QED BY <1>4, <1>5

LEMMA SysCallBuffers ==
  ASSUME LockInv, LockInv', NEW t \in Threads, SysCall(t), NEW c \in Chans, OpenInv(c)
  PROVE  OpenInv(c)'
<1> DEFINE d == thr[t].c
<1>1. thr[t].at = "sys" /\ chan' = chan /\ mutex' = mutex
  BY SysCallCases DEF locks
<1>2. /\ thr \in [Threads -> OpType] /\ d \in Chans /\ kpos \in [Chans -> Int]
      /\ DOMAIN file = OutChans
  BY <1>1, ThreadReady, SigTypes DEF LockInv, TypeInv
<1>3. PICK k \in Int :
        /\ Return(t, k)
        /\ \/ /\ k \in {EINTR, EAGAIN, EIO} /\ UNCHANGED kernel
           \/ /\ thr[t].call = "write" /\ k \in 1 .. Len(thr[t].data)
              /\ file' = [file EXCEPT ![d] =
                   [i \in DOMAIN file[d] \cup (kpos[d] + 1 .. kpos[d] + k) |->
                      IF i - kpos[d] \in 1 .. k THEN thr[t].data[i - kpos[d]] ELSE file[d][i]]]
              /\ kpos' = [kpos EXCEPT ![d] = kpos[d] + k]
           \/ /\ thr[t].call = "read" /\ k \in 0 .. thr[t].n
              /\ kpos' = [kpos EXCEPT ![d] = kpos[d] + k] /\ UNCHANGED file
           \/ /\ thr[t].call = "lseek" /\ k = 0
              /\ kpos' = [kpos EXCEPT ![d] = thr[t].left] /\ UNCHANGED file
  BY SysCallCases
<1> DEFINE o == Returned(t, k)
<1>4. /\ Moved(t, o) /\ o.at = "leave" /\ o.ret = k /\ o.op = thr[t].op /\ o.c = d
      /\ o.left = thr[t].left /\ o.call = thr[t].call /\ o.n = thr[t].n /\ o.new = thr[t].new
  BY <1>3, ReturnedFacts
<1>5. thr'[t] = o
  BY <1>2, <1>4 DEF Moved
<1> HIDE DEF o
<1>6. CASE c # d
  <2>1. kpos'[c] = kpos[c] /\ (c \in OutChans => file'[c] = file[c])
    BY <1>2, <1>3, <1>6 DEF kernel
  <2> QED BY <1>1, <1>4, <1>6, <2>1, OtherChannels
<1>7. CASE c = d
  <2>1. Inside(t, c) /\ Inside(t, c)'
    BY <1>1, <1>4, <1>5, <1>7 DEF Inside
  <2>2. /\ kpos[c] = chan[c].offset /\ OpenCall(chan[c], thr[t])
        /\ IF c \in OutChans THEN OutWindow(chan[c], Wrote(c)) ELSE InWindow(chan[c])
    BY <1>1, <2>1 DEF OpenInv, KernelAt, CallPlaces
  <2>3. OpenCall(chan'[c], thr'[t])
    BY <1>1, <1>4, <1>5, <2>2 DEF OpenCall
  <2>4. CallOK(chan[c], thr[t]) /\ (thr[t].op \in OutOps <=> c \in OutChans) /\ kpos[c] \in Int
    BY <1>1, <1>2, <1>7, ThreadReady DEF LockInv, ThreadInv, CallPlaces
  <2>5. Len(thr[t].data) \in Nat /\ thr[t].n \in Int
    BY <1>2 DEF OpType
  <2>6. Wrote(c) \subseteq Wrote(c)' /\ KernelAt(chan'[c], thr'[t], kpos'[c], Wrote(c)')
    <3>1. CASE k \in {EINTR, EAGAIN, EIO} /\ UNCHANGED kernel
      <4>1. k < 0 /\ k # 0
        BY <3>1 DEF EINTR, EAGAIN, EIO
      <4>2. kpos' = kpos /\ file' = file
        BY <3>1 DEF kernel
      <4> QED BY <1>1, <1>3, <1>4, <1>5, <2>2, <4>1, <4>2 DEF KernelAt, Wrote
    <3>2. CASE /\ thr[t].call = "write" /\ k \in 1 .. Len(thr[t].data)
               /\ file' = [file EXCEPT ![d] =
                    [i \in DOMAIN file[d] \cup (kpos[d] + 1 .. kpos[d] + k) |->
                       IF i - kpos[d] \in 1 .. k THEN thr[t].data[i - kpos[d]] ELSE file[d][i]]]
               /\ kpos' = [kpos EXCEPT ![d] = kpos[d] + k]
      <4>1. c \in OutChans /\ kpos'[c] = kpos[c] + k /\ k > 0
        BY <1>2, <1>7, <2>4, <2>5, <3>2 DEF CallOK
      <4>2. DOMAIN file'[c] = DOMAIN file[c] \cup (kpos[c] + 1 .. kpos[c] + k)
        BY <1>2, <1>7, <3>2, <4>1
      <4>3. Wrote(c)' = Wrote(c) \cup (kpos[c] + 1 .. kpos[c] + k)
        BY <4>1, <4>2 DEF Wrote
      <4>4. o.call # "lseek" /\ ~(o.ret <= 0)
        BY <1>3, <1>4, <3>2, <4>1
      <4> QED BY <1>1, <1>3, <1>4, <1>5, <2>2, <2>4, <4>1, <4>3, <4>4 DEF KernelAt
    <3>3. CASE /\ thr[t].call = "read" /\ k \in 0 .. thr[t].n
               /\ kpos' = [kpos EXCEPT ![d] = kpos[d] + k] /\ UNCHANGED file
      <4>1. kpos'[c] = kpos[c] + k /\ k >= 0 /\ Wrote(c)' = Wrote(c)
        BY <1>2, <1>7, <2>5, <3>3 DEF Wrote
      <4>2. k = 0 => kpos[c] + k = kpos[c]
        BY <2>4
      <4> QED BY <1>1, <1>3, <1>4, <1>5, <2>2, <2>4, <3>3, <4>1, <4>2 DEF KernelAt
    <3>4. CASE /\ thr[t].call = "lseek" /\ k = 0
               /\ kpos' = [kpos EXCEPT ![d] = thr[t].left] /\ UNCHANGED file
      <4>1. kpos'[c] = thr[t].left /\ Wrote(c)' = Wrote(c)
        BY <1>2, <1>7, <3>4 DEF Wrote
      <4> QED BY <1>1, <1>4, <1>5, <3>4, <4>1 DEF KernelAt
    <3> QED BY <1>3, <3>1, <3>2, <3>3, <3>4
  <2>7. IF c \in OutChans THEN OutWindow(chan'[c], Wrote(c)') ELSE InWindow(chan'[c])
    BY <1>1, <2>2, <2>6 DEF OutWindow
  <2>8. thr'[t].at # "sys"
    BY <1>4, <1>5
  <2> QED BY <2>1, <2>3, <2>6, <2>7, <2>8, OpenOwn
<1> QED BY <1>6, <1>7

\* The bytes of a write go to their positions.
LEMMA SysCallFiles ==
  ASSUME LockInv, NEW t \in Threads, SysCall(t), FilesExact,
         \A c \in Chans \ torn : chan[c].fd = "open" => OpenInv(c)
  PROVE  FilesExact'
<1> DEFINE d == thr[t].c
<1>1. thr[t].at = "sys" /\ torn' = torn
  BY SysCallCases
<1>2. /\ thr[t] \in OpType /\ d \in Chans /\ kpos \in [Chans -> Int] /\ DOMAIN file = OutChans
  BY <1>1, ThreadReady, SigTypes
<1>3. PICK k \in Int :
        \/ UNCHANGED file
        \/ /\ chan[d].fd = "open" /\ thr[t].call = "write" /\ k \in 1 .. Len(thr[t].data)
           /\ file' = [file EXCEPT ![d] =
                [i \in DOMAIN file[d] \cup (kpos[d] + 1 .. kpos[d] + k) |->
                   IF i - kpos[d] \in 1 .. k THEN thr[t].data[i - kpos[d]] ELSE file[d][i]]]
  BY SysCallCases DEF kernel
<1>4. CASE UNCHANGED file
  BY <1>1, <1>4 DEF FilesExact
<1>5. CASE /\ chan[d].fd = "open" /\ thr[t].call = "write" /\ k \in 1 .. Len(thr[t].data)
           /\ file' = [file EXCEPT ![d] =
                [i \in DOMAIN file[d] \cup (kpos[d] + 1 .. kpos[d] + k) |->
                   IF i - kpos[d] \in 1 .. k THEN thr[t].data[i - kpos[d]] ELSE file[d][i]]]
  <2> SUFFICES ASSUME NEW c \in OutChans \ torn, NEW i \in DOMAIN file'[c]
               PROVE  i \in Int /\ file'[c][i] = i
    BY <1>1 DEF FilesExact
  <2>1. CASE c # d
    <3>1. file'[c] = file[c]
      BY <1>2, <1>5, <2>1
    <3> QED BY <3>1 DEF FilesExact
  <2>2. CASE c = d
    <3>1. OpenInv(c) /\ Inside(t, c)
      BY <1>1, <1>5, <2>2 DEF Inside, Chans
    <3>2. kpos[c] = chan[c].offset /\ thr[t].data = Positions(chan[c].offset, thr[t].n)
      BY <1>1, <1>5, <3>1 DEF OpenInv, KernelAt
    <3>3. kpos[c] \in Int /\ thr[t].n \in Nat
      <4>1. CallOK(chan[c], thr[t])
        BY <1>1, <2>2 DEF LockInv, ThreadInv, CallPlaces
      <4> QED BY <1>2, <1>5, <2>2, <4>1, BufferSize DEF CallOK
    <3>4. /\ Len(thr[t].data) = thr[t].n
          /\ \A j \in 1 .. thr[t].n : thr[t].data[j] = kpos[c] + j
      <4> DEFINE p == Positions(kpos[c], thr[t].n)
      <4>1. Len(p) = thr[t].n /\ \A j \in 1 .. thr[t].n : p[j] = kpos[c] + j
        BY <3>3, PositionsSeq
      <4>2. thr[t].data = p
        BY <3>2
      <4> QED BY <4>1, <4>2
    <3>5. /\ i \in DOMAIN file[c] \cup (kpos[c] + 1 .. kpos[c] + k)
          /\ file'[c][i] = IF i - kpos[c] \in 1 .. k THEN thr[t].data[i - kpos[c]] ELSE file[c][i]
      BY <1>2, <1>5, <2>2
    <3>6. CASE i - kpos[c] \in 1 .. k /\ i \in Int
      <4>1. i - kpos[c] \in 1 .. thr[t].n
        BY <1>5, <3>3, <3>4, <3>6
      <4>2. thr[t].data[i - kpos[c]] = kpos[c] + (i - kpos[c])
        BY <3>4, <4>1
      <4> QED BY <3>3, <3>5, <3>6, <4>2
    <3>7. CASE ~(i - kpos[c] \in 1 .. k)
      <4>1. i \in DOMAIN file[c]
        BY <3>3, <3>5, <3>7
      <4> QED BY <3>5, <3>7, <4>1 DEF FilesExact
    <3>8. i \in Int
      BY <1>3, <3>3, <3>5 DEF FilesExact
    <3> QED BY <3>6, <3>7, <3>8
  <2> QED BY <2>1, <2>2
<1> QED BY <1>3, <1>4, <1>5

LEMMA LeaveBuffers ==
  ASSUME LockInv, LockInv', NEW t \in Threads, Leave(t), NEW c \in Chans \ torn',
         chan[c].fd = "open" => OpenInv(c), chan'[c].fd = "open"
  PROVE  OpenInv(c)'
<1> DEFINE d == thr[t].c
           r == Resumed(t)
<1>1. thr[t].at \in {"locked", "leave"} /\ kpos' = kpos /\ file' = file /\ Wrote(c)' = Wrote(c)
  BY DEF Leave, kernel, Wrote
<1>2. /\ thr \in [Threads -> OpType] /\ mutex \in [Chans -> Threads \cup {none}]
      /\ chan \in [Chans -> ChanType] /\ d \in Chans /\ (thr[t].op \in OutOps <=> d \in OutChans)
      /\ kpos \in [Chans -> Int] /\ thr[t].ret \in Int
  BY <1>1, ThreadReady DEF LockInv, TypeInv, OpType
<1>3. Inside(t, d) /\ mutex[d] = t /\ thr[t].at # "idle"
  BY <1>1, <1>2, Owner DEF Inside
<1>4. Outcome(r, chan[d], thr[t])
  BY <1>1, ResumedOutcome
<1>5. /\ chan[d].fd = "open" /\ OpenInv(d) => OpenOutcome(r, kpos[d], thr[t].op, Wrote(d))
      /\ r.o.at \in {"done", "raise", "enter"} /\ r.o.c = d /\ r.ch.fd = chan[d].fd
      /\ r.o.at = "raise" => r.ch = chan[d]
  BY <1>1, <1>4, ResumedOutcome DEF Outcome
<1>6. CASE Proceed(t, r)
  <2> HIDE DEF r
  <2>1. CASE r.o.at = "raise"
    <3>1. caml_raise(t) /\ chan' = chan
      BY <1>6, <2>1 DEF Proceed, caml_raise
    <3>2. OpenInv(c)
      BY <3>1
    <3>3. Inside(t, c) => kpos[c] = chan[c].offset
      <4> SUFFICES ASSUME Inside(t, c) PROVE kpos[c] = chan[c].offset
        OBVIOUS
      <4>1. c = d
        BY DEF Inside
      <4> QED BY <1>5, <2>1, <3>1, <3>2, <4>1 DEF OpenOutcome
    <3> QED BY <1>1, <1>3, <3>1, <3>2, <3>3, RaiseBuffers DEF Leave
  <2>2. CASE r.o.at # "raise" /\ c # d
    <3>1. chan' = [chan EXCEPT ![d] = r.ch]
      BY <1>5, <1>6, <2>2 DEF Proceed
    <3>2. /\ r.o.at = "done" => Moved(t, Idle) /\ mutex' = Unlocked(mutex, d)
          /\ r.o.at # "done" => Moved(t, r.o) /\ mutex' = mutex
      BY <1>5, <1>6, <2>2 DEF Proceed, Moved, locks
    <3>3. chan'[c] = chan[c] /\ mutex'[c] = mutex[c]
      BY <1>2, <2>2, <3>1, <3>2 DEF Unlocked
    <3>4. OpenInv(c)
      BY <3>3
    <3> QED BY <1>1, <1>5, <2>2, <3>2, <3>3, <3>4, OtherChannels, IdleTyped
  <2>3. CASE r.o.at # "raise" /\ c = d
    <3>1. chan'[c] = r.ch
      BY <1>2, <1>5, <1>6, <2>3 DEF Proceed
    <3>2. OpenOutcome(r, kpos[c], thr[t].op, Wrote(c))
      BY <1>5, <2>3, <3>1
    <3>3. /\ IF c \in OutChans THEN OutWindow(chan'[c], Wrote(c)') ELSE InWindow(chan'[c])
          /\ kpos'[c] = chan'[c].offset
          /\ r.o.at = "enter" => OpenCall(chan'[c], r.o)
      BY <1>1, <1>2, <2>3, <3>1, <3>2 DEF OpenOutcome, Window
    <3>4. CASE r.o.at = "done"
      <4>1. mutex'[c] = none
        BY <1>2, <1>5, <1>6, <2>3, <3>4 DEF Proceed, Unlocked
      <4> QED BY <3>3, <4>1, OpenFree
    <3>5. CASE r.o.at = "enter"
      <4>1. thr'[t] = r.o
        BY <1>2, <1>6, <3>5 DEF Proceed
      <4>2. Inside(t, c)' /\ KernelAt(chan'[c], thr'[t], kpos'[c], Wrote(c)')
        BY <1>5, <2>3, <3>3, <3>5, <4>1 DEF Inside, KernelAt
      <4> QED BY <3>3, <3>5, <4>1, <4>2, OpenOwn
    <3> QED BY <1>5, <2>3, <3>4, <3>5
  <2> QED BY <2>1, <2>2, <2>3
<1>7. CASE /\ caml_raise(t)
           /\ torn' = IF thr[t].at = "leave" /\ (thr[t].ret > 0 \/ thr[t].call = "lseek")
                      THEN torn \cup {thr[t].c} ELSE torn
  <2>1. OpenInv(c)
    BY <1>7 DEF caml_raise
  <2>2. Inside(t, c) => kpos[c] = chan[c].offset
    <3> SUFFICES ASSUME Inside(t, c) PROVE kpos[c] = chan[c].offset
      OBVIOUS
    <3>1. c = d
      BY DEF Inside
    <3>2. KernelAt(chan[c], thr[t], kpos[c], Wrote(c))
      BY <2>1 DEF OpenInv
    <3>3. thr[t].at = "leave" => thr[t].ret <= 0 /\ thr[t].call # "lseek"
      BY <1>2, <1>7, <3>1
    <3> QED BY <1>1, <3>2, <3>3 DEF KernelAt
  <2> QED BY <1>1, <1>3, <1>7, <2>1, <2>2, RaiseBuffers DEF Leave
<1> QED BY <1>6, <1>7 DEF Leave

LEMMA CloseBuffers ==
  ASSUME LockInv, LockInv', NEW t \in Threads, caml_ml_close_channel(t), NEW c \in Chans,
         chan[c].fd = "open" => OpenInv(c), chan'[c].fd = "open"
  PROVE  OpenInv(c)'
<1>1. PICK d \in Chans : chan' = [chan EXCEPT ![d] = Closed(chan[d])]
  BY DEF caml_ml_close_channel
<1>2. kpos' = kpos /\ file' = file /\ mutex' = mutex /\ thr' = thr
  BY DEF caml_ml_close_channel, kernel, locks
<1>3. chan \in [Chans -> ChanType]
  BY DEF LockInv, TypeInv
<1>4. Closed(chan[d]).fd = "closed"
  BY <1>3 DEF Closed, ChanType
<1>5. c # d /\ chan'[c] = chan[c]
  BY <1>1, <1>3, <1>4
<1> QED BY <1>2, <1>5, OpenFrame

BufferInv ==
  /\ LockInv /\ FilesExact
  /\ \A c \in Chans \ torn : chan[c].fd = "open" => OpenInv(c)

LEMMA BufferInit ==
  ChannelInit => BufferInv
<1> SUFFICES ASSUME ChannelInit PROVE BufferInv
  OBVIOUS
<1>1. LockInv
  BY LockInit
<1>2. FilesExact
  <2>1. \A c \in OutChans : DOMAIN file[c] = {}
    BY EmptySeq DEF ChannelInit
  <2> QED BY <2>1 DEF FilesExact
<1>3. PICK open \in SUBSET Chans :
        chan = [c \in Chans |-> [Opened EXCEPT !.fd = IF c \in open THEN "open" ELSE "unused"]]
  BY DEF ChannelInit
<1>4. ASSUME NEW c \in Chans PROVE OpenInv(c)
  <2>1. chan[c].buff = <<>> /\ chan[c].offset = 0 /\ chan[c].curr = 0 /\ chan[c].given = {}
    BY <1>3 DEF Opened
  <2>2. Len(chan[c].buff) = 0
    BY <2>1, EmptySeq
  <2>3. Positions(0, 0) = <<>> /\ Positions(0 - 0, 0) = <<>>
    <3>1. Positions(0, 0) \in Seq(Int) /\ Len(Positions(0, 0)) = 0
      BY PositionsSeq
    <3> QED BY <3>1, EmptySeq
  <2>4. OutWindow(chan[c], Wrote(c)) /\ InWindow(chan[c])
    BY <2>1, <2>2, <2>3 DEF OutWindow, InWindow
  <2>5. kpos[c] = 0 /\ \A u \in Threads : ~Inside(u, c)
    BY IdleTyped DEF ChannelInit, Inside
  <2> QED BY <2>1, <2>4, <2>5 DEF OpenInv
<1> QED BY <1>1, <1>2, <1>4 DEF BufferInv

LEMMA BufferStep ==
  BufferInv /\ [ChannelNext]_vars => BufferInv'
<1> SUFFICES ASSUME BufferInv, [ChannelNext]_vars PROVE BufferInv'
  OBVIOUS
<1>1. LockInv /\ FilesExact /\ LockInv'
  BY LockStep DEF BufferInv
<1>2. \A c \in Chans \ torn : chan[c].fd = "open" => OpenInv(c)
  BY DEF BufferInv
<1>3. ASSUME NEW t \in Threads,
             Begin(t) \/ TryLock(t) \/ Enter(t) \/ MutexLock(t) \/ SysCall(t)
      PROVE  /\ torn' = torn
             /\ \A c \in Chans : chan'[c].fd = chan[c].fd
             /\ \A c \in Chans : OpenInv(c) => OpenInv(c)'
  <2>1. torn' = torn
    BY <1>3, <1>1, EnterCases DEF Begin, TryLock, MutexLock, SysCall
  <2>2. \A c \in Chans : chan'[c].fd = chan[c].fd
    <3>1. CASE TryLock(t)
      <4> DEFINE d == thr[t].c
                 r == Run(chan[d], thr[t])
      <4>1. thr[t].at = "lock" /\ chan' = [chan EXCEPT ![d] = r.ch]
        BY <3>1 DEF TryLock
      <4>2. d \in Chans /\ r.ch.fd = chan[d].fd
        BY <1>1, <4>1, ThreadReady, RunKeeps DEF Keeps, Outcome
      <4>3. chan \in [Chans -> ChanType]
        BY <1>1 DEF LockInv, TypeInv
      <4> HIDE DEF r
      <4> QED BY <4>1, <4>2, <4>3
    <3>2. CASE ~TryLock(t)
      <4>1. chan' = chan
        BY <1>1, <1>3, <3>2, EnterCases DEF Begin, MutexLock, SysCall, caml_raise
      <4> QED BY <4>1
    <3> QED BY <3>1, <3>2
  <2>3. ASSUME NEW c \in Chans, OpenInv(c) PROVE OpenInv(c)'
    BY <1>1, <1>3, <2>3, BeginBuffers, TryLockBuffers, EnterBuffers, MutexLockBuffers, SysCallBuffers
  <2> QED BY <2>1, <2>2, <2>3
<1>4. ASSUME NEW t \in Threads,
             Begin(t) \/ TryLock(t) \/ Enter(t) \/ MutexLock(t) \/ SysCall(t)
      PROVE  BufferInv'
  <2>1. FilesExact'
    <3>1. CASE SysCall(t)
      BY <1>1, <1>2, <3>1, SysCallFiles
    <3>2. CASE ~SysCall(t)
      <4>1. file' = file
        BY <1>1, <1>4, <3>2, EnterCases DEF Begin, TryLock, MutexLock, kernel
      <4> QED BY <1>1, <1>3, <1>4, <4>1 DEF FilesExact
    <3> QED BY <3>1, <3>2
  <2>2. \A c \in Chans \ torn' : chan'[c].fd = "open" => OpenInv(c)'
    BY <1>2, <1>3, <1>4
  <2> QED BY <1>1, <2>1, <2>2 DEF BufferInv
<1>5. ASSUME NEW t \in Threads, Leave(t)
      PROVE  BufferInv'
  <2>1. file' = file /\ torn \subseteq torn'
    BY <1>5 DEF Leave, kernel
  <2>2. FilesExact'
    BY <1>1, <2>1 DEF FilesExact
  <2>3. \A c \in Chans \ torn' : chan'[c].fd = "open" => OpenInv(c)'
    BY <1>1, <1>2, <1>5, <2>1, LeaveBuffers
  <2> QED BY <1>1, <2>2, <2>3 DEF BufferInv
<1>6. ASSUME NEW t \in Threads, caml_ml_close_channel(t)
      PROVE  BufferInv'
  <2>1. file' = file /\ torn' = torn
    BY <1>6 DEF caml_ml_close_channel, kernel
  <2>2. FilesExact'
    BY <1>1, <2>1 DEF FilesExact
  <2>3. \A c \in Chans \ torn' : chan'[c].fd = "open" => OpenInv(c)'
    BY <1>1, <1>2, <1>6, <2>1, CloseBuffers
  <2> QED BY <1>1, <2>2, <2>3 DEF BufferInv
<1>7. CASE caml_record_signal \/ UNCHANGED vars
  <2>1. UNCHANGED <<chan, file, kpos, mutex, thr, torn>>
    BY <1>7 DEF caml_record_signal, vars, kernel, locks
  <2>2. FilesExact'
    BY <1>1, <2>1 DEF FilesExact
  <2>3. \A c \in Chans \ torn' : chan'[c].fd = "open" => OpenInv(c)'
    BY <1>2, <2>1, OpenFrame
  <2> QED BY <1>1, <2>2, <2>3 DEF BufferInv
<1> QED BY <1>4, <1>5, <1>6, <1>7 DEF ChannelNext, ThreadStep

\* io.h, io.c: whatever the partial writes, interrupted calls, errors, closes and concurrent
\* operations, each byte is written at its position and none is lost between the buffer and
\* the file, and the buffer of an input channel is the window of the file that ends at offset.
THEOREM ChannelBuffers == ChannelSpec => []BuffersExact
<1>1. BufferInv => BuffersExact
  <2> SUFFICES ASSUME BufferInv PROVE BuffersExact
    OBVIOUS
  <2>1. OutputExact
    BY DEF BufferInv, FilesExact, OpenInv, OutWindow, Wrote, OutputExact, Chans
  <2>2. InputWindow
    <3>1. \A c \in InChans : c \in Chans /\ c \notin OutChans
      BY ChannelSizes DEF Chans
    <3> QED BY <3>1 DEF BufferInv, OpenInv, InWindow, InputWindow
  <2> QED BY <2>1, <2>2 DEF BuffersExact
<1> QED BY <1>1, BufferInit, BufferStep, PTL DEF ChannelSpec
=============================================================================
