------------------------------ MODULE BufferIO ------------------------------
(***************************************************************************)
(* The awaiters of Buffer (Buffer.cc): read_atmost, read and read_to add   *)
(* bytes of a nonblocking stream socket to an evbuffer; write takes bytes  *)
(* out of an evbuffer and sends them.  One coroutine writes, another one   *)
(* reads at the other end, and anybody may add to the writer's buffer      *)
(* meanwhile.  The bytes of the stream are numbered.                       *)
(***************************************************************************)
EXTENDS Integers, Sequences, FiniteSets

CONSTANTS
  Cap,        \* how many bytes the socket holds
  MaxSize,    \* bound: the largest size of one read or write
  MaxBytes    \* bound: how many bytes are added to the writer's buffer in all

VARIABLES
  out,     \* the evbuffer that is written from
  pipe,    \* the bytes in the socket
  in,      \* the evbuffer that is read into
  open,    \* the writing end is open
  reset,   \* the connection is broken
  rd, wr,  \* the awaiters, and where their coroutines are
  added    \* history: how many bytes were added to out

vars == <<out, pipe, in, open, reset, rd, wr, added>>

\* A limit below zero means no limit; in the size_t of a ReadAwaiter it is
\* larger than any number of bytes.
NoLimit == -1

\* pc: "idle", "suspended" (the event is added), "resumed" (await_resume runs
\* next), "threw".  count is bytes_read or bytes_written.  history: how many
\* bytes had been read or written before the call, and the size asked for.
Awaiter == [pc : {"idle", "suspended", "resumed", "threw"},
            op : {"none", "read_atmost", "read", "read_to", "write"},
            limit : -1..MaxBytes, count : 0..MaxBytes, err : BOOLEAN, eof : BOOLEAN,
            before : 0..MaxBytes, size : -1..MaxSize]

Idle == [pc |-> "idle", op |-> "none", limit |-> 0, count |-> 0, err |-> FALSE,
         eof |-> FALSE, before |-> 0, size |-> 0]

Init ==
  /\ out = <<>> /\ pipe = <<>> /\ in = <<>>
  /\ open = TRUE /\ reset = FALSE
  /\ rd = Idle /\ wr = Idle
  /\ added = 0

Least(a, b) == IF a < b THEN a ELSE b

-----------------------------------------------------------------------------
(* The rest of the program, and the socket *)

\* Somebody adds n bytes to the writer's buffer.
Add(n) ==
  /\ added + n <= MaxBytes
  /\ added' = added + n
  /\ out' = out \o [i \in 1..n |-> added + i]
  /\ UNCHANGED <<pipe, in, open, reset, rd, wr>>

Close ==
  /\ open /\ wr.pc \in {"idle", "threw"}
  /\ open' = FALSE
  /\ UNCHANGED <<out, pipe, in, reset, rd, wr, added>>

Reset ==
  /\ ~reset
  /\ reset' = TRUE
  /\ UNCHANGED <<out, pipe, in, open, rd, wr, added>>

\* What evbuffer_read of at most n bytes may return when the socket is
\* readable: -1 for an error, 0 at the end of the stream.
evbuffer_read(n) ==
  IF reset THEN {-1}
  ELSE IF pipe = <<>> THEN {0}
  ELSE 1..(IF n < 0 THEN Len(pipe) ELSE Least(n, Len(pipe)))

\* What evbuffer_write_atmost of at most n bytes may return when the socket is
\* writable.  It does not call write(2) when there is nothing to write.
evbuffer_write_atmost(n) ==
  IF reset \/ n = 0 \/ out = <<>> THEN {-1}
  ELSE 1..Least(Least(n, Len(out)), Cap - Len(pipe))

-----------------------------------------------------------------------------
(* ReadAwaiter *)

\* ReadAwaiter's constructor, await_ready and await_suspend.
ReadAwaiter(op, size, limit) ==
  /\ rd.pc = "idle"
  /\ rd' = [Idle EXCEPT !.op = op, !.size = size, !.limit = limit, !.before = Len(in),
                        !.pc = IF limit = 0 THEN "resumed" ELSE "suspended"]
  /\ UNCHANGED <<out, pipe, in, open, reset, wr, added>>

read_atmost(size) == ReadAwaiter("read_atmost", size, size)

read(size) == size >= 0 /\ ReadAwaiter("read", size, size)

read_to(size) ==
  size >= 0 /\ ReadAwaiter("read_to", size, IF size <= Len(in) THEN 0 ELSE size - Len(in))

Readable == pipe # <<>> \/ ~open \/ reset

\* The bytes that evbuffer_read and evbuffer_write_atmost have moved.
MoveIn(k) ==
  /\ in' = in \o SubSeq(pipe, 1, k)
  /\ pipe' = SubSeq(pipe, k + 1, Len(pipe))

\* ReadAtMostAwaiter::on_read_ready: whatever there is will do.
on_read_ready_AtMost ==
  /\ rd.pc = "suspended" /\ rd.op = "read_atmost" /\ Readable
  /\ \E k \in evbuffer_read(rd.limit) :
       IF k < 0
       THEN /\ rd' = [rd EXCEPT !.pc = "resumed", !.err = TRUE]
            /\ UNCHANGED <<pipe, in>>
       ELSE /\ rd' = [rd EXCEPT !.pc = "resumed", !.count = k]
            /\ MoveIn(k)
  /\ UNCHANGED <<out, open, reset, wr, added>>

\* Mutation of on_read_ready_Exactly: the end of the stream is not noticed.
on_read_ready_Exactly_Eof ==
  /\ rd.pc = "suspended" /\ rd.op \in {"read", "read_to"} /\ Readable
  /\ \E k \in evbuffer_read(rd.limit - rd.count) :
       IF k < 0
       THEN /\ rd' = [rd EXCEPT !.pc = "resumed", !.err = TRUE]
            /\ UNCHANGED <<pipe, in>>
       ELSE /\ rd' = [rd EXCEPT !.count = @ + k,
                                !.pc = IF rd.count + k = rd.limit THEN "resumed" ELSE @]
            /\ MoveIn(k)
  /\ UNCHANGED <<out, open, reset, wr, added>>

\* ReadExactlyAwaiter::on_read_ready: the event is added again (the coroutine
\* stays suspended) until the bytes are complete, the stream ends or fails.
on_read_ready_Exactly ==
  /\ rd.pc = "suspended" /\ rd.op \in {"read", "read_to"} /\ Readable
  /\ \E k \in evbuffer_read(rd.limit - rd.count) :
       IF k < 0
       THEN /\ rd' = [rd EXCEPT !.pc = "resumed", !.err = TRUE]
            /\ UNCHANGED <<pipe, in>>
       ELSE /\ rd' = [rd EXCEPT !.count = @ + k,
                                !.eof = (k = 0),
                                !.pc = IF k = 0 \/ rd.count + k = rd.limit THEN "resumed" ELSE @]
            /\ MoveIn(k)
  /\ UNCHANGED <<out, open, reset, wr, added>>

\* await_resume of both.
read_resume ==
  /\ rd.pc = "resumed"
  /\ rd' = IF rd.err \/ rd.eof THEN [rd EXCEPT !.pc = "threw"] ELSE Idle
  /\ UNCHANGED <<out, pipe, in, open, reset, wr, added>>

-----------------------------------------------------------------------------
(* WriteAwaiter *)

\* Buffer::write: the constructor and await_suspend.
write(size) ==
  /\ wr.pc = "idle" /\ open
  /\ wr' = [Idle EXCEPT !.op = "write", !.pc = "suspended", !.limit = size, !.size = size,
                        !.before = added - Len(out)]
  /\ UNCHANGED <<out, pipe, in, open, reset, rd, added>>

Writable == Len(pipe) < Cap \/ reset

\* Mutation of on_write_ready: more than limit bytes are complete as well.
on_write_ready_AtLeast ==
  LET limit == IF wr.limit < 0 THEN Len(out) ELSE wr.limit
  IN  /\ wr.pc = "suspended" /\ Writable
      /\ \E k \in evbuffer_write_atmost(limit) :
           IF k < 0
           THEN /\ wr' = [wr EXCEPT !.limit = limit, !.pc = "resumed", !.err = TRUE]
                /\ UNCHANGED <<out, pipe>>
           ELSE /\ wr' = [wr EXCEPT !.limit = limit, !.count = @ + k,
                                    !.pc = IF wr.count + k >= limit THEN "resumed" ELSE @]
                /\ pipe' = pipe \o SubSeq(out, 1, k)
                /\ out' = SubSeq(out, k + 1, Len(out))
      /\ UNCHANGED <<in, open, reset, rd, added>>

\* WriteAwaiter::on_write_ready: a limit below zero becomes the length of the
\* buffer now; the event is added again until limit bytes are written.
on_write_ready ==
  LET limit == IF wr.limit < 0 THEN Len(out) ELSE wr.limit
  IN  /\ wr.pc = "suspended" /\ Writable
      /\ \E k \in evbuffer_write_atmost(limit) :
           IF k < 0
           THEN /\ wr' = [wr EXCEPT !.limit = limit, !.pc = "resumed", !.err = TRUE]
                /\ UNCHANGED <<out, pipe>>
           ELSE /\ wr' = [wr EXCEPT !.limit = limit, !.count = @ + k,
                                    !.pc = IF wr.count + k = limit THEN "resumed" ELSE @]
                /\ pipe' = pipe \o SubSeq(out, 1, k)
                /\ out' = SubSeq(out, k + 1, Len(out))
      /\ UNCHANGED <<in, open, reset, rd, added>>

write_resume ==
  /\ wr.pc = "resumed"
  /\ wr' = IF wr.err THEN [wr EXCEPT !.pc = "threw"] ELSE Idle
  /\ UNCHANGED <<out, pipe, in, open, reset, rd, added>>

Sizes == NoLimit..MaxSize

Next ==
  \/ \E n \in 1..MaxSize : Add(n)
  \/ Close
  \/ Reset
  \/ \E n \in Sizes : read_atmost(n)
  \/ \E n \in 0..MaxSize : read(n) \/ read_to(n)
  \/ on_read_ready_AtMost
  \/ on_read_ready_Exactly
  \/ read_resume
  \/ \E n \in Sizes : write(n)
  \/ on_write_ready
  \/ write_resume

Spec == Init /\ [][Next]_vars

\* The event loop runs the callbacks of the events that are ready.
FairSpec ==
  /\ Spec
  /\ WF_vars(on_read_ready_AtMost) /\ WF_vars(on_read_ready_Exactly)
  /\ WF_vars(read_resume) /\ WF_vars(on_write_ready) /\ WF_vars(write_resume)

-----------------------------------------------------------------------------
(* Properties *)

\* What a read that returns without an exception has done to the buffer,
\* however the bytes arrived: read has added size bytes, read_to what was
\* missing of size bytes, read_atmost up to size bytes, and none only at the
\* end of the stream or if none were asked for.
ReadDelivers ==
  rd.pc = "resumed" /\ ~rd.err /\ ~rd.eof =>
    CASE rd.op = "read"        -> Len(in) = rd.before + rd.size
      [] rd.op = "read_to"     -> Len(in) = IF rd.before < rd.size THEN rd.size ELSE rd.before
      [] rd.op = "read_atmost" -> /\ Len(in) = rd.before + rd.count
                                  /\ rd.size < 0 \/ rd.count <= rd.size
                                  /\ rd.count = 0 => rd.size = 0 \/ ~open

\* How many bytes have left the writer's buffer since the call.
Written == added - Len(out) - wr.before

\* A write that returns without an exception has taken size bytes out of the
\* buffer (all that it held when the socket was first writable if size is
\* negative), whatever was added meanwhile and however often it had to wait.
WriteDelivers ==
  wr.pc = "resumed" /\ ~wr.err =>
    Written = wr.limit /\ (wr.size >= 0 => Written = wr.size)

\* Every read and write that returns without an exception has moved what it was
\* asked to, as ReadDelivers and WriteDelivers say.
Delivers == ReadDelivers /\ WriteDelivers

\* A read that waits is resumed when the stream ends or fails.
EndOfStreamReported == rd.pc = "suspended" /\ (~open \/ reset) ~> rd.pc # "suspended"

\* README: buffer.write "Writes the given number of bytes from the buffer to the
\* given fd."  It never writes more.
WritesGivenNumber == wr.op = "write" /\ wr.size >= 0 => Written <= wr.size
=============================================================================
