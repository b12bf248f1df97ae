------------------------------ MODULE Awaiters ------------------------------
(***************************************************************************)
(* The awaiters on callbacks of libevent, each with the program around it: *)
(* the reads and writes of Base, the sockets that several coroutines       *)
(* share, the reads and writes of Buffer, and the coroutines that wait for *)
(* timers, lookups and responses.  They share nothing but the event loop;  *)
(* a behaviour is one of one of the four.                                  *)
(***************************************************************************)
EXTENDS Callbacks, Sequences

CONSTANTS
  Cap, MaxSize, MaxWritten,                     \* of StreamIO
  MaxAdded,                                     \* MaxBytes of BufferIO
  Kinds, MaxArrivals, MaxLength, max_size       \* of SharedSocket

ASSUME CapAssumption == Cap \in Nat \ {0}
ASSUME BoundsAssumption == {MaxSize, MaxWritten, MaxAdded, MaxArrivals, MaxLength, MaxOps} \subseteq Nat
ASSUME KindsAssumption == Kinds \subseteq {"listen", "datagram"}
ASSUME max_sizeAssumption == max_size \in Nat \ {0}

VARIABLES
  part,
  pipe, open, reset, rd, mem, wr, given, taken,                                     \* StreamIO
  kind, inbox, arrived, broken, place, event, err, res, returned, empty,            \* SharedSocket
  buf_out, buf_pipe, buf_in, buf_open, buf_reset, buf_rd, buf_wr, added             \* BufferIO

St == INSTANCE StreamIO WITH MaxBytes <- MaxWritten
So == INSTANCE SharedSocket WITH MaxSize <- max_size, pc <- place
Bu == INSTANCE BufferIO WITH MaxBytes <- MaxAdded, out <- buf_out, pipe <- buf_pipe, in <- buf_in,
                             open <- buf_open, reset <- buf_reset, rd <- buf_rd, wr <- buf_wr

stream == <<pipe, open, reset, rd, mem, wr, given, taken>>
socket == <<kind, inbox, arrived, broken, place, event, err, res, returned, empty>>
buffer == <<buf_out, buf_pipe, buf_in, buf_open, buf_reset, buf_rd, buf_wr, added>>
allvars == <<part, stream, socket, buffer, vars>>

InitAll ==
  /\ part \in {"stream", "socket", "buffer", "callbacks"}
  /\ St!Init /\ So!Init /\ Bu!Init /\ Init
  /\ part # "socket" => kind = CHOOSE k \in Kinds : TRUE

\* Steps of one of them.
StreamPart(A) == part = "stream" /\ A /\ UNCHANGED <<part, socket, buffer, vars>>
SocketPart(A) == part = "socket" /\ A /\ UNCHANGED <<part, stream, buffer, vars>>
BufferPart(A) == part = "buffer" /\ A /\ UNCHANGED <<part, stream, socket, vars>>
CallbackPart(A) == part = "callbacks" /\ A /\ UNCHANGED <<part, stream, socket, buffer>>

NextAll == StreamPart(St!Next) \/ SocketPart(So!Next) \/ BufferPart(Bu!Next) \/ CallbackPart(Next)

\* The event loop runs the callbacks of the events that are ready, and the
\* coroutine that a callback has resumed goes on.
SpecAll ==
  /\ InitAll /\ [][NextAll]_allvars
  /\ WF_allvars(StreamPart(St!on_read_ready)) /\ WF_allvars(StreamPart(St!read_resume))
  /\ WF_allvars(StreamPart(St!on_write_ready)) /\ WF_allvars(StreamPart(St!write_resume))
  /\ WF_allvars(BufferPart(Bu!on_read_ready_AtMost)) /\ WF_allvars(BufferPart(Bu!on_read_ready_Exactly))
  /\ WF_allvars(BufferPart(Bu!read_resume))
  /\ WF_allvars(BufferPart(Bu!on_write_ready)) /\ WF_allvars(BufferPart(Bu!write_resume))
  /\ \A c \in Coro :
       /\ WF_allvars(SocketPart(So!on_accept_ready(c))) /\ WF_allvars(SocketPart(So!on_read_ready(c)))
       /\ WF_allvars(CallbackPart(\E p \in pending : p.coro = c /\ Fire(p)))
       /\ WF_allvars(CallbackPart(Return(c)))

-----------------------------------------------------------------------------
(* Properties, see the modules; the ones of Callbacks are inherited *)

\* Every byte gets across once and in order, however the reads and the writes
\* of Base are cut into pieces, and what returns is complete.
StreamIntact == St!StreamIntact

\* The reader and the writer of Base never wait for each other for good, and a
\* read ends when enough bytes have been sent.
NoMutualWait == St!NoMutualWait

\* Every connection and every message of a shared socket goes to one coroutine,
\* which sees as much of the message as fits into max_size.
OneOwner == So!OneOwner

\* Who waits at a shared socket is resumed, comes too late, or has its err set.
ServedOrFailed == So!ServedOrFailed

\* Every read of Buffer that returns has added to the buffer what it was asked
\* to, and every write has taken out what it was asked to.
Delivers == Bu!Delivers

\* A read of Buffer is resumed when the stream ends or fails.
EndOfStreamReported == Bu!EndOfStreamReported
=============================================================================
