------------------------------ MODULE Channels ------------------------------
(***************************************************************************)
(* Buffered channels (byterun/io.c) used by several threads, with the      *)
(* channel mutexes of otherlibs/systhreads/st_stubs.c and the signals of   *)
(* byterun/signals.c.                                                      *)
(*                                                                         *)
(* A thread runs alone until it enters a blocking section or ends its      *)
(* operation: each action is such a stretch, or a system call.  Signals    *)
(* are recorded and their handlers run where a thread enters or leaves a   *)
(* blocking section (with threads, never inside one).                      *)
(*                                                                         *)
(* A byte is the position in the file it is meant for, counted from 1, so  *)
(* a lost, repeated or misplaced byte shows.                               *)
(***************************************************************************)
EXTENDS Integers, FiniteSets, SequencesExt

CONSTANTS
  Threads, OutChans, InChans,
  IO_BUFFER_SIZE,
  FileSize,      \* positions of each file
  MaxLen,        \* longest string of an output or input operation
  Newlines,      \* positions of the newlines of the input files
  MaxSignals,    \* signals that arrive
  Opens,         \* number of channels that are opened
  none

ASSUME ChannelSizes ==
  /\ {IO_BUFFER_SIZE, FileSize, MaxLen} \subseteq Nat \ {0}
  /\ Newlines \subseteq 1 .. FileSize
  /\ none \notin Threads \cup OutChans \cup InChans
  /\ OutChans \cap InChans = {}

Chans == OutChans \cup InChans

VARIABLES
  chan,     \* fields of struct channel; buff is what lies before curr or max; given
            \* is history: the positions of the bytes an output channel has accepted
  file,     \* kernel: the byte at each position written of the output files
  kpos,     \* kernel: position of each descriptor
  mutex,    \* owner of the mutex of each channel
  last_channel_locked,
  thr,      \* operation of each thread
  sigs,     \* signals that have arrived; caml_signals_are_pending
  torn      \* channels on which a handler raised after a transfer

vars == <<chan, file, kpos, mutex, last_channel_locked, thr, sigs, torn>>
kernel == <<file, kpos>>
locks == <<mutex, last_channel_locked>>

Junk(n) == [i \in 1 .. n |-> 0]
Positions(from, n) == [i \in 1 .. n |-> from + i]
Idle == [op |-> "none", at |-> "idle", c |-> none, left |-> 0, call |-> "none", n |-> 0, new |-> 0,
         data |-> <<>>, ret |-> 0]

pos_out(ch) == ch.offset + Len(ch.buff)
-----------------------------------------------------------------------------
(* What an operation does between two blocking sections: from the channel   *)
(* and the operation to both afterwards.  at is where it stops.             *)

Stop(ch, o, at) ==
  [ch |-> ch,
   o |-> IF at \in {"done", "raise"} THEN [o EXCEPT !.at = at]
         ELSE [o EXCEPT !.at = "enter", !.call = at, !.ret = 0]]
AddBytes(ch, n) == [ch EXCEPT !.buff = @ \o Positions(pos_out(ch), n),
                              !.given = @ \cup ToSet(Positions(pos_out(ch), n))]

\* The bytes that fit are copied, but curr moves after the write only.
caml_putblock(ch, o) ==
  LET free == IO_BUFFER_SIZE - Len(ch.buff)
  IN IF o.left < free THEN Stop(AddBytes(ch, o.left), o, "done")
     ELSE Stop(ch, [o EXCEPT !.n = IO_BUFFER_SIZE, !.new = free], "write")

caml_flush_partial(ch, o) == Stop(ch, [o EXCEPT !.n = Len(ch.buff), !.new = 0], "write")

putch(ch, o) ==
  IF Len(ch.buff) >= IO_BUFFER_SIZE THEN caml_flush_partial(ch, o)
  ELSE Stop(AddBytes(ch, 1), o, "done")

caml_flush(ch, o) ==
  IF Len(ch.buff) > 0 THEN caml_flush_partial(ch, o)
  ELSE Stop(ch, o, IF o.op = "seek_out" THEN "lseek" ELSE "done")

\* Input into the buffer, from index `from` to its end.
Read(ch, o, from) == Stop(ch, [o EXCEPT !.n = IO_BUFFER_SIZE - from, !.new = from], "read")

Take(ch, o, n) == Stop([ch EXCEPT !.curr = @ + n], o, "done")

caml_getblock(ch, o) ==
  LET avail == Len(ch.buff) - ch.curr
  IN CASE o.left <= avail -> Take(ch, o, o.left)
       [] o.left > avail /\ avail > 0 -> Take(ch, o, avail)
       [] OTHER -> Read(ch, o, 0)

getch(ch, o) == IF ch.curr >= Len(ch.buff) THEN Read(ch, o, 0) ELSE Take(ch, o, 1)

\* Unread bytes move to the start of the buffer before more are read behind them.
caml_input_scan_line(ch, o) ==
  LET unread == SubSeq(ch.buff, ch.curr + 1, Len(ch.buff))
      nl == {i \in DOMAIN unread : unread[i] \in Newlines}
      shifted == [ch EXCEPT !.buff = unread, !.curr = 0]
  IN CASE nl # {} -> Stop(ch, o, "done")
       [] nl = {} /\ Len(unread) >= IO_BUFFER_SIZE -> Stop(shifted, o, "done")
       [] OTHER -> Read(shifted, o, Len(unread))

caml_seek_in(ch, o) ==
  LET dest == o.left
  IN IF dest >= ch.offset - Len(ch.buff) /\ dest <= ch.offset
     THEN Stop([ch EXCEPT !.curr = Len(ch.buff) - (ch.offset - dest)], o, "done")
     ELSE Stop(ch, o, "lseek")

\* The code of each operation from its start, or from its last blocking section.
Run(ch, o) ==
  CASE o.op = "output" -> IF o.left > 0 THEN caml_putblock(ch, o) ELSE Stop(ch, o, "done")
    [] o.op = "output_char" -> putch(ch, o)
    [] o.op \in {"flush", "seek_out"} -> caml_flush(ch, o)
    [] o.op = "input" -> caml_getblock(ch, o)
    [] o.op = "input_char" -> getch(ch, o)
    [] o.op = "scan_line" -> caml_input_scan_line(ch, o)
    [] o.op = "seek_in" -> caml_seek_in(ch, o)

\* Mutant: a partial write empties the buffer.
Written_all(ch, o, k) ==
  Run([AddBytes(ch, o.new) EXCEPT !.offset = @ + k, !.buff = <<>>], [o EXCEPT !.left = @ - o.new, !.new = 0])

\* After a write of k bytes: the rest moves to the start of the buffer.
Written(ch, o, k) ==
  LET full == IF ch.fd = "open" THEN AddBytes(ch, o.new) ELSE ch
  IN Run([full EXCEPT !.offset = @ + k, !.buff = SubSeq(@, k + 1, Len(@))],
         [o EXCEPT !.left = @ - o.new, !.new = 0])

\* After a read of bs into the buffer at index o.new.
Filled(ch, o, bs) ==
  LET n == Len(bs)
      ch1 == [ch EXCEPT !.offset = @ + n, !.buff = SubSeq(@, 1, o.new) \o bs]
  IN CASE o.op = "input" -> Take([ch1 EXCEPT !.curr = 0], o, IF o.left > n THEN n ELSE o.left)
       [] o.op = "input_char" /\ n > 0 -> Take([ch1 EXCEPT !.curr = 0], o, 1)
       [] o.op = "input_char" /\ n = 0 -> Stop(ch, o, "raise")   \* End_of_file
       [] o.op = "scan_line" /\ n = 0 -> Stop(ch, o, "done")
       [] OTHER -> caml_input_scan_line(ch1, o)

Seeked(ch, o) ==
  Stop([ch EXCEPT !.offset = o.left,
                  !.buff = IF o.op = "seek_in" THEN <<>> ELSE @,
                  !.curr = 0], o, "done")
-----------------------------------------------------------------------------
(* Locks and exceptions.                                                    *)

Unlocked(m, c) == [m EXCEPT ![c] = none]

\* Mutant: the exception leaves the mutex locked.
caml_raise_keeps_lock(t) ==
  /\ thr' = [thr EXCEPT ![t] = Idle]
  /\ UNCHANGED <<chan, locks>>

\* caml_raise, with caml_io_mutex_unlock_exn.
caml_raise(t) ==
  LET c == last_channel_locked[t]
  IN /\ thr' = [thr EXCEPT ![t] = Idle]
     /\ mutex' = IF c = none THEN mutex ELSE Unlocked(mutex, c)
     /\ last_channel_locked' = [last_channel_locked EXCEPT ![t] = none]
     /\ UNCHANGED chan

\* The operation goes on to its next blocking section or to its end.
Proceed(t, r) ==
  IF r.o.at = "raise" THEN caml_raise(t)
  ELSE /\ chan' = [chan EXCEPT ![r.o.c] = r.ch]
       /\ IF r.o.at = "done"
          THEN /\ mutex' = Unlocked(mutex, r.o.c)
               /\ last_channel_locked' = [last_channel_locked EXCEPT ![t] = none]
               /\ thr' = [thr EXCEPT ![t] = Idle]
          ELSE thr' = [thr EXCEPT ![t] = r.o] /\ UNCHANGED locks

\* caml_process_pending_signals: the handler returns or raises.
HandlerReturns == sigs' = [sigs EXCEPT !.pending = FALSE]
HandlerRaises == sigs.pending /\ sigs' = [sigs EXCEPT !.pending = FALSE]
-----------------------------------------------------------------------------
(* Actions.                                                                 *)

Ops(c) ==
  IF c \in OutChans
  THEN [op : {"output"}, left : 1 .. MaxLen] \cup [op : {"output_char", "flush"}, left : {0}]
         \cup [op : {"seek_out"}, left : {0}]
  ELSE [op : {"input"}, left : 1 .. MaxLen] \cup [op : {"input_char", "scan_line"}, left : {0}]
         \cup [op : {"seek_in"}, left : 0 .. FileSize]

\* Bound: the outputs under way stay within the file.
Length(o) == CASE o.op = "output" -> o.left [] o.op = "output_char" -> 1 [] OTHER -> 0
Fits(c, o) ==
  LET users == {t \in Threads : thr[t].c = c}
  IN pos_out(chan[c]) + FoldSet(LAMBDA t, n : n + Length(thr[t]), Length(o), users) <= FileSize

\* caml_ml_output, caml_ml_input, ...: a flush of a closed channel does nothing.  A torn
\* channel is not used again.
Begin(t) ==
  \E c \in Chans : \E o \in Ops(c) :
    /\ thr[t].at = "idle" /\ c \notin torn /\ chan[c].fd # "unused"
    /\ o.op = "flush" => chan[c].fd = "open"
    /\ o.op \in {"output", "output_char"} => Fits(c, o)
    /\ thr' = [thr EXCEPT ![t] = [Idle EXCEPT !.op = o.op, !.left = o.left, !.c = c, !.at = "lock"]]
    /\ UNCHANGED <<chan, kernel, locks, sigs, torn>>

\* The mutex is free: taken without leaving the runtime system.
TryLock(t) ==
  LET c == thr[t].c
      r == Run(chan[c], thr[t])
  IN /\ thr[t].at = "lock" /\ mutex[c] = none
     /\ IF r.o.at = "done"
        THEN /\ chan' = [chan EXCEPT ![c] = r.ch] /\ thr' = [thr EXCEPT ![t] = Idle]
             /\ last_channel_locked' = [last_channel_locked EXCEPT ![t] = none]
             /\ UNCHANGED mutex
        ELSE /\ chan' = [chan EXCEPT ![c] = r.ch] /\ thr' = [thr EXCEPT ![t] = r.o]
             /\ mutex' = [mutex EXCEPT ![c] = t]
             /\ last_channel_locked' = [last_channel_locked EXCEPT ![t] = c]
     /\ UNCHANGED <<kernel, sigs, torn>>

\* caml_enter_blocking_section: handlers run until no signal is pending.
Enter(t) ==
  LET o == thr[t]
      ch == chan[o.c]
      waits == o.at = "lock" /\ mutex[o.c] # none
      bytes == IF o.call = "write" THEN SubSeq(ch.buff \o Positions(pos_out(ch), o.new), 1, o.n)
               ELSE <<>>
  IN /\ o.at = "enter" \/ waits
     /\ UNCHANGED <<kernel, torn>>
     /\ \/ /\ ~sigs.pending
           /\ thr' = [thr EXCEPT ![t].at = IF waits THEN "lockwait" ELSE "sys", ![t].data = bytes]
           /\ UNCHANGED <<chan, locks, sigs>>
        \/ sigs.pending /\ HandlerReturns /\ UNCHANGED <<chan, locks, thr>>
        \/ HandlerRaises /\ caml_raise(t)

\* st_mutex_lock, and the note of which channel is locked.
MutexLock(t) ==
  /\ thr[t].at = "lockwait" /\ mutex[thr[t].c] = none
  /\ mutex' = [mutex EXCEPT ![thr[t].c] = t]
  /\ last_channel_locked' = [last_channel_locked EXCEPT ![t] = thr[t].c]
  /\ thr' = [thr EXCEPT ![t].at = "locked"]
  /\ UNCHANGED <<chan, kernel, sigs, torn>>

Return(t, ret) == thr' = [thr EXCEPT ![t].at = "leave", ![t].ret = ret, ![t].data = <<>>]
EINTR == -1
EAGAIN == -2
EIO == -3

\* A system call outside the runtime system.  A closed descriptor is an error.
SysCall(t) ==
  LET o == thr[t]
      c == o.c
  IN /\ o.at = "sys" /\ UNCHANGED <<chan, locks, sigs, torn>>
     /\ \/ sigs.pending /\ o.call # "lseek" /\ Return(t, EINTR) /\ UNCHANGED kernel
        \/ o.call = "write" /\ Return(t, EAGAIN) /\ UNCHANGED kernel
        \/ Return(t, EIO) /\ UNCHANGED kernel
        \/ /\ chan[c].fd = "open" /\ o.call = "write"
           /\ \E k \in 1 .. Len(o.data) :
                /\ file' = [file EXCEPT ![c] = [i \in DOMAIN @ \cup (kpos[c] + 1 .. kpos[c] + k) |->
                             IF i - kpos[c] \in 1 .. k THEN o.data[i - kpos[c]] ELSE @[i]]]
                /\ kpos' = [kpos EXCEPT ![c] = @ + k] /\ Return(t, k)
        \/ /\ chan[c].fd = "open" /\ o.call = "read"
           /\ \E k \in 0 .. o.n :
                /\ k + kpos[c] <= FileSize /\ (k = 0 => kpos[c] = FileSize)
                /\ kpos' = [kpos EXCEPT ![c] = @ + k] /\ UNCHANGED file /\ Return(t, k)
        \/ /\ chan[c].fd = "open" /\ o.call = "lseek"
           /\ kpos' = [kpos EXCEPT ![c] = o.left] /\ UNCHANGED file /\ Return(t, 0)

\* What do_write, caml_do_read and the seeks do with the result.
Resumed(t) ==
  LET o == thr[t]
      ch == chan[o.c]
  IN CASE o.at = "locked" -> Run(ch, o)
       [] o.ret = EIO \/ (o.ret = EAGAIN /\ o.n = 1) -> Stop(ch, o, "raise")
       [] o.ret = EINTR -> Stop(ch, o, o.call)
       [] o.ret = EAGAIN /\ o.n > 1 -> Stop(ch, [o EXCEPT !.n = 1], o.call)
       [] OTHER -> CASE o.call = "write" -> Written(ch, o, o.ret)
                     [] o.call = "read" -> Filled(ch, o, Positions(kpos[o.c] - o.ret, o.ret))
                     [] o.call = "lseek" -> Seeked(ch, o)

\* caml_leave_blocking_section, after which the operation goes on.
Leave(t) ==
  /\ thr[t].at \in {"locked", "leave"}
  /\ UNCHANGED kernel
  /\ \/ HandlerReturns /\ Proceed(t, Resumed(t)) /\ UNCHANGED torn
     \/ /\ HandlerRaises /\ caml_raise(t)
        /\ torn' = IF thr[t].at = "leave" /\ (thr[t].ret > 0 \/ thr[t].call = "lseek")
                   THEN torn \cup {thr[t].c} ELSE torn

\* caml_open_descriptor_in, caml_open_descriptor_out
Opened == [fd |-> "open", offset |-> 0, buff |-> <<>>, curr |-> 0, given |-> {}]

Closed(ch) == [ch EXCEPT !.fd = "closed", !.buff = Junk(IO_BUFFER_SIZE), !.curr = IO_BUFFER_SIZE]

\* caml_ml_close_channel takes no lock.
caml_ml_close_channel(t) ==
  \E c \in Chans :
    /\ thr[t].at = "idle" /\ chan[c].fd = "open"
    /\ chan' = [chan EXCEPT ![c] = Closed(@)]
    /\ UNCHANGED <<kernel, locks, thr, sigs, torn>>

caml_record_signal ==
  /\ sigs.n < MaxSignals
  /\ sigs' = [n |-> sigs.n + 1, pending |-> TRUE]
  /\ UNCHANGED <<chan, kernel, locks, thr, torn>>

ChannelInit ==
  /\ \E open \in {S \in SUBSET Chans : Cardinality(S) = Opens} :
       chan = [c \in Chans |-> [Opened EXCEPT !.fd = IF c \in open THEN "open" ELSE "unused"]]
  /\ file = [c \in OutChans |-> <<>>]
  /\ kpos = [c \in Chans |-> 0]
  /\ mutex = [c \in Chans |-> none]
  /\ last_channel_locked = [t \in Threads |-> none]
  /\ thr = [t \in Threads |-> Idle]
  /\ sigs = [n |-> 0, pending |-> FALSE]
  /\ torn = {}

ThreadStep(t) == TryLock(t) \/ Enter(t) \/ MutexLock(t) \/ SysCall(t) \/ Leave(t)

ChannelNext ==
  \/ \E t \in Threads : Begin(t) \/ ThreadStep(t) \/ caml_ml_close_channel(t)
  \/ caml_record_signal

ChannelSpec == ChannelInit /\ [][ChannelNext]_vars

\* A thread with work is run, and a mutex that is released again and again goes to
\* each of its waiters; the kernel answers.
ChannelFairSpec ==
  ChannelSpec /\ \A t \in Threads : SF_vars(MutexLock(t)) /\ WF_vars(ThreadStep(t))
-----------------------------------------------------------------------------
(* Properties.                                                              *)

\* Threads between Lock and Unlock, the channel's mutex theirs.
Inside(t, c) == thr[t].c = c /\ thr[t].at \in {"enter", "sys", "leave", "locked"}

\* io.c: the entry points "perform locking and unlocking around the I/O operations": a thread
\* inside an operation on a channel, and no other, owns its mutex, and would release it if an
\* exception were raised, so that no error, end of file or exception of a signal handler leaves
\* a channel locked or lets a second thread in (st_stubs.c).
LocksReleased ==
  /\ \A c \in Chans : mutex[c] # none => Inside(mutex[c], c)
  /\ \A c \in Chans, t \in Threads :
       Inside(t, c) => mutex[c] = t /\ last_channel_locked[t] = c

\* io.h: the offset of an output channel is the position of the start of its buffer.
\* Whatever the partial writes, interrupted calls, errors and concurrent operations,
\* each byte is written at its position, none is lost between the buffer and the file.
OutputExact ==
  \A c \in OutChans \ torn :
    /\ \A i \in DOMAIN file[c] : file[c][i] = i
    /\ chan[c].fd = "open" =>
         /\ chan[c].buff = Positions(chan[c].offset, Len(chan[c].buff))
         /\ chan[c].given \subseteq DOMAIN file[c] \cup ToSet(chan[c].buff)
    /\ (chan[c].fd = "open" /\ mutex[c] = none) => kpos[c] = chan[c].offset

\* io.h: the offset of an input channel is the position of the logical end of its
\* buffer; the buffer is the window of the file that ends there.
InputWindow ==
  \A c \in InChans \ torn :
    chan[c].fd = "open" =>
      /\ chan[c].buff = Positions(chan[c].offset - Len(chan[c].buff), Len(chan[c].buff))
      /\ chan[c].curr \in 0 .. Len(chan[c].buff)
      /\ mutex[c] = none => kpos[c] = chan[c].offset

\* The buffers of channels tell the truth about the files under them, in both directions.
BuffersExact == OutputExact /\ InputWindow

\* Every operation ends: partial writes, interrupted calls, contention for the mutex, errors and
\* handlers that raise never leave a thread in an operation (io.c, st_stubs.c).
OperationsEnd == \A t \in Threads : thr[t].at # "idle" ~> thr[t].at = "idle"
=============================================================================
