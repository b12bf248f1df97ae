------------------------------ MODULE StreamIO ------------------------------
(***************************************************************************)
(* Base::ReadAwaiter and Base::WriteAwaiter (Base.cc): one coroutine       *)
(* writes to a nonblocking stream socket with base.write, another one      *)
(* reads from its other end with base.read.  Both awaiters try the system  *)
(* call at once in await_ready; when it cannot do all of the work they     *)
(* advance data and size, suspend, and go on in the callback of a one-shot *)
(* event that every unfinished attempt has to add again.                   *)
(*                                                                         *)
(* The bytes of the stream are numbered.  data is the number of bytes that *)
(* the pointer has been advanced, size what is left.                       *)
(***************************************************************************)
EXTENDS Integers, Sequences, FiniteSets

CONSTANTS
  Cap,         \* how many bytes the socket holds
  MaxSize,     \* bound: the largest size of one read or write
  MaxBytes     \* bound: how many bytes are written in all

VARIABLES
  pipe,    \* the bytes in the socket
  open,    \* the writing end is open
  reset,   \* the connection is broken: both ends get errors
  rd,      \* the ReadAwaiter, and where the reading coroutine is
  mem,     \* the memory the ReadAwaiter reads into
  wr,      \* the WriteAwaiter, and where the writing coroutine is
  given,   \* history: the bytes given to the writes called so far
  taken    \* history: the bytes that the completed reads returned

vars == <<pipe, open, reset, rd, mem, wr, given, taken>>
kernel == <<pipe, open, reset>>

\* pc: "idle" outside of the call, "suspended", "resumed" (await_resume runs
\* next), "threw" (the call has thrown: the coroutine gives up on the stream).
\* event: the event is added.  want: the size at the call.
Awaiter == [pc : {"idle", "suspended", "resumed", "threw"}, event : BOOLEAN,
            data : 0..MaxSize, size : 0..MaxSize, want : 0..MaxSize,
            err : BOOLEAN, eof : BOOLEAN]

Idle == [pc |-> "idle", event |-> FALSE, data |-> 0, size |-> 0, want |-> 0,
         err |-> FALSE, eof |-> FALSE]

Init ==
  /\ pipe = <<>> /\ open = TRUE /\ reset = FALSE
  /\ rd = Idle /\ mem = <<>> /\ wr = Idle
  /\ given = 0 /\ taken = 0

-----------------------------------------------------------------------------
(* The socket *)

Least(a, b) == IF a < b THEN a ELSE b

\* What read(2) and write(2) return besides a number of bytes.
Error == -1
Again == -2   \* EWOULDBLOCK, EAGAIN

\* read(2) of n bytes; it returns 0 at the end of the stream.
read_result(n) ==
  IF reset                          THEN {Error}
  ELSE IF n > 0 /\ pipe # <<>>      THEN 1..Least(n, Len(pipe))
  ELSE IF n = 0 \/ ~open            THEN {0}
                                    ELSE {Again}

\* write(2) of n bytes.
write_result(n) ==
  IF reset                          THEN {Error}
  ELSE IF n > 0 /\ Len(pipe) < Cap  THEN 1..Least(n, Cap - Len(pipe))
  ELSE IF n = 0                     THEN {0}
                                    ELSE {Again}

\* The connection breaks.
Reset ==
  /\ ~reset
  /\ reset' = TRUE
  /\ UNCHANGED <<pipe, open, rd, mem, wr, given, taken>>

\* The writing coroutine closes its end.
Close ==
  /\ open /\ wr.pc \in {"idle", "threw"}
  /\ open' = FALSE
  /\ UNCHANGED <<pipe, reset, rd, mem, wr, given, taken>>

-----------------------------------------------------------------------------
(* ReadAwaiter *)

\* Bytes 1..k of the socket go to where data points.
Fetch(m, data, k) ==
  /\ mem' = [i \in DOMAIN m |-> IF i \in data + 1 .. data + k THEN pipe[i - data] ELSE m[i]]
  /\ pipe' = SubSeq(pipe, k + 1, Len(pipe))

\* Mutations of Advance: the pointer stays; the event is not added again.
Advance_SameData(aw, k) ==
  [aw EXCEPT !.pc = "suspended", !.event = TRUE, !.size = @ - k]
Advance_NoEvent(aw, k) ==
  [aw EXCEPT !.pc = "suspended", !.data = @ + k, !.size = @ - k]

\* What becomes of awaiter aw after k < size bytes: wait for the others.
Advance(aw, k) ==
  [aw EXCEPT !.pc = "suspended", !.event = TRUE, !.data = @ + k, !.size = @ - k]

\* base.read of n bytes: await_ready, and await_suspend if it answers no.
read(n) ==
  LET aw == [Idle EXCEPT !.size = n, !.want = n]
      m  == [i \in 1..n |-> 0]
  IN  /\ rd.pc = "idle"
      /\ \E k \in read_result(n) :
           \/ /\ k = Error
              /\ rd' = [aw EXCEPT !.pc = "threw"]
              /\ mem' = m /\ UNCHANGED pipe
           \/ /\ k = Again
              /\ rd' = Advance(aw, 0)
              /\ mem' = m /\ UNCHANGED pipe
           \/ /\ k >= 0
              /\ Fetch(m, 0, k)
              /\ rd' = IF k < n THEN Advance(aw, k)
                                ELSE [aw EXCEPT !.pc = "resumed", !.size = 0]
      /\ UNCHANGED <<open, reset, wr, given, taken>>

\* ReadAwaiter::on_read_ready: the event was added and the socket is readable,
\* or it is not any more, or the stream has ended.
on_read_ready ==
  LET aw == [rd EXCEPT !.event = FALSE]
  IN  /\ rd.event
      /\ \E k \in read_result(rd.size) :
           \/ /\ k = Error
              /\ rd' = [aw EXCEPT !.pc = "resumed", !.err = TRUE]
              /\ UNCHANGED <<mem, pipe>>
           \/ /\ k = Again
              /\ rd' = [aw EXCEPT !.event = TRUE]
              /\ UNCHANGED <<mem, pipe>>
           \/ /\ k >= 0
              /\ Fetch(mem, rd.data, k)
              /\ rd' = IF k < rd.size THEN Advance(aw, k)
                                      ELSE [aw EXCEPT !.pc = "resumed", !.size = 0]
      /\ UNCHANGED <<open, reset, wr, given, taken>>

\* ReadAwaiter::await_resume; when it does not throw, the caller has its bytes.
read_resume ==
  /\ rd.pc = "resumed"
  /\ IF rd.err \/ rd.eof
     THEN rd' = [rd EXCEPT !.pc = "threw"] /\ UNCHANGED <<mem, taken>>
     ELSE rd' = Idle /\ mem' = <<>> /\ taken' = taken + rd.want
  /\ UNCHANGED <<kernel, wr, given>>

-----------------------------------------------------------------------------
(* WriteAwaiter *)

\* k bytes from where data points go into the socket; the awaiter's memory
\* holds the bytes up to last.
Send(last, want, data, k) ==
  pipe' = pipe \o [j \in 1..k |-> last - want + data + j]

\* base.write of n bytes: await_ready, and await_suspend if it answers no.
write(n) ==
  LET aw == [Idle EXCEPT !.size = n, !.want = n]
  IN  /\ open /\ wr.pc = "idle" /\ given + n <= MaxBytes
      /\ given' = given + n
      /\ \E k \in write_result(n) :
           \/ /\ k = Error
              /\ wr' = [aw EXCEPT !.pc = "threw"]
              /\ UNCHANGED pipe
           \/ /\ k = Again
              /\ wr' = Advance(aw, 0)
              /\ UNCHANGED pipe
           \/ /\ k >= 0
              /\ Send(given', n, 0, k)
              /\ wr' = IF k < n THEN Advance(aw, k)
                                ELSE [aw EXCEPT !.pc = "resumed", !.size = 0]
      /\ UNCHANGED <<open, reset, rd, mem, taken>>

\* WriteAwaiter::on_write_ready.
on_write_ready ==
  LET aw == [wr EXCEPT !.event = FALSE]
  IN  /\ wr.event
      /\ \E k \in write_result(wr.size) :
           \/ /\ k = Error
              /\ wr' = [aw EXCEPT !.pc = "resumed", !.err = TRUE]
              /\ UNCHANGED pipe
           \/ /\ k = Again
              /\ wr' = [aw EXCEPT !.event = TRUE]
              /\ UNCHANGED pipe
           \/ /\ k >= 0
              /\ Send(given, wr.want, wr.data, k)
              /\ wr' = IF k < wr.size THEN Advance(aw, k)
                                      ELSE [aw EXCEPT !.pc = "resumed", !.size = 0]
      /\ UNCHANGED <<open, reset, rd, mem, given, taken>>

\* WriteAwaiter::await_resume.
write_resume ==
  /\ wr.pc = "resumed"
  /\ wr' = IF wr.err THEN [wr EXCEPT !.pc = "threw"] ELSE Idle
  /\ UNCHANGED <<kernel, rd, mem, given, taken>>

Next ==
  \/ Reset
  \/ Close
  \/ \E n \in 0..MaxSize : read(n)
  \/ on_read_ready
  \/ read_resume
  \/ \E n \in 0..MaxSize : write(n)
  \/ on_write_ready
  \/ write_resume

Spec == Init /\ [][Next]_vars

\* The event loop runs the callbacks of the events that are ready.
FairSpec ==
  /\ Spec
  /\ WF_vars(on_read_ready) /\ WF_vars(read_resume)
  /\ WF_vars(on_write_ready) /\ WF_vars(write_resume)

-----------------------------------------------------------------------------
(* Properties *)

\* How many bytes the read in progress has in memory, how many the write in
\* progress has sent.
Fetched == IF rd.pc = "idle" THEN 0 ELSE rd.want - rd.size
Sent == given - (IF wr.pc = "idle" THEN 0 ELSE wr.size)

\* Every byte gets across once and in order, however the reads and the writes
\* are cut into pieces: the completed reads, then the memory of the read in
\* progress, then the socket hold the bytes that were sent.  A read or write
\* that returns without an exception is complete.
StreamIntact ==
  /\ taken + Fetched + Len(pipe) = Sent
  /\ \A i \in 1..Fetched : mem[i] = taken + i
  /\ \A i \in 1..Len(pipe) : pipe[i] = taken + Fetched + i
  /\ rd.pc = "resumed" /\ ~rd.err => \A i \in 1..rd.want : mem[i] = taken + i
  /\ wr.pc = "resumed" /\ ~wr.err => taken + Fetched + Len(pipe) = given

\* The reader and the writer never wait for each other for good, also when
\* what they read and write is larger than the socket; and a read ends when
\* enough bytes have been sent, or the connection breaks.
NoMutualWait ==
  /\ (rd.pc = "suspended" /\ wr.pc = "suspended") ~> ~(rd.pc = "suspended" /\ wr.pc = "suspended")
  /\ rd.pc = "suspended" /\ (reset \/ Len(pipe) >= rd.size) ~> rd.pc # "suspended"

\* Base.cc, await_resume: "end of stream" is thrown to the coroutine.  A read
\* that waits for bytes after the end of the stream is resumed.
EndOfStreamReported ==
  rd.pc = "suspended" /\ ~open /\ pipe = <<>> ~> rd.pc # "suspended"
=============================================================================
