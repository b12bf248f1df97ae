---------------------------- MODULE SharedSocket ----------------------------
(***************************************************************************)
(* Base::AcceptAwaiter and Base::RecvFromAwaiter (Base.cc): several        *)
(* coroutines take connections from one listening socket, or datagrams     *)
(* from one datagram socket.  When several of them wait, all their         *)
(* callbacks run for one arrival, and the ones that come too late add      *)
(* their event again.  Of a datagram only its length matters.              *)
(***************************************************************************)
EXTENDS Integers, Sequences, FiniteSets

CONSTANTS
  Coro,         \* the coroutines that share the socket
  Kinds,        \* what the socket may be: "listen", "datagram"
  MaxArrivals,  \* bound: how many connections or messages arrive
  MaxLength,    \* the longest message
  MaxSize       \* max_size of base.recvfrom

VARIABLES
  kind,       \* what the socket is
  inbox,      \* the connections or messages that wait in the socket: [id, len]
  arrived,    \* how many have arrived; they are numbered
  broken,     \* recvfrom(2) fails
  pc,         \* where each coroutine is
  event,      \* the coroutines whose awaiter's event is added
  err,        \* the coroutines whose awaiter has err set
  res,        \* AcceptAwaiter::accepted_fd (an id), RecvFromAwaiter::res
  returned,   \* history: the ids co_await has returned, in order
  empty       \* history: the ids of messages of length zero that were read

vars == <<kind, inbox, arrived, broken, pc, event, err, res, returned, empty>>

NoResult == [id |-> 0, len |-> 0, size |-> 0, data_available |-> 0]

Init ==
  /\ kind \in Kinds
  /\ inbox = <<>> /\ arrived = 0 /\ broken = FALSE
  /\ pc = [c \in Coro |-> "idle"]
  /\ event = {} /\ err = {}
  /\ res = [c \in Coro |-> NoResult]
  /\ returned = <<>> /\ empty = {}

-----------------------------------------------------------------------------
(* The socket *)

Arrive(n) ==
  /\ arrived < MaxArrivals
  /\ arrived' = arrived + 1
  /\ inbox' = Append(inbox, [id |-> arrived', len |-> n])
  /\ UNCHANGED <<kind, broken, pc, event, err, res, returned, empty>>

\* A client connects; the length of a connection means nothing.
Connect == kind = "listen" /\ Arrive(0)

Datagram == kind = "datagram" /\ \E n \in 0..MaxLength : Arrive(n)

Break ==
  /\ kind = "datagram" /\ ~broken
  /\ broken' = TRUE
  /\ UNCHANGED <<kind, inbox, arrived, pc, event, err, res, returned, empty>>

-----------------------------------------------------------------------------
(* AcceptAwaiter *)

\* base.accept: the awaiter is made, and await_suspend adds its event.
accept(c) ==
  /\ kind = "listen" /\ pc[c] = "idle"
  /\ pc' = [pc EXCEPT ![c] = "suspended"]
  /\ event' = event \cup {c}
  /\ err' = err \ {c}
  /\ res' = [res EXCEPT ![c] = NoResult]
  /\ UNCHANGED <<kind, inbox, arrived, broken, returned, empty>>

\* Mutations of on_accept_ready_Again: the event is not added again; the
\* coroutine is resumed all the same.
on_accept_ready_Again_Drop(c) ==
  /\ inbox = <<>>
  /\ event' = event \ {c}
  /\ UNCHANGED <<inbox, pc, err, res>>
on_accept_ready_Again_Resume(c) ==
  /\ inbox = <<>>
  /\ event' = event \ {c}
  /\ pc' = [pc EXCEPT ![c] = "resumed"]
  /\ UNCHANGED <<inbox, err, res>>

\* Another coroutine has taken the connection: EAGAIN, and the event is added
\* again.
on_accept_ready_Again(c) ==
  /\ inbox = <<>>
  /\ UNCHANGED <<inbox, pc, event, err, res>>

\* on_accept_ready.  When accept(2) fails with anything but EAGAIN (there are
\* no more file descriptors), err is set, and that is all.
on_accept_ready(c) ==
  /\ kind = "listen" /\ c \in event
  /\ \/ /\ inbox # <<>>
        /\ event' = event \ {c}
        /\ res' = [res EXCEPT ![c].id = Head(inbox).id]
        /\ inbox' = Tail(inbox)
        /\ pc' = [pc EXCEPT ![c] = "resumed"]
        /\ UNCHANGED err
     \/ on_accept_ready_Again(c)
     \/ /\ inbox # <<>>
        /\ event' = event \ {c}
        /\ err' = err \cup {c}
        /\ UNCHANGED <<inbox, pc, res>>
  /\ UNCHANGED <<kind, arrived, broken, returned, empty>>

-----------------------------------------------------------------------------
(* RecvFromAwaiter *)

\* recvfrom(2) of a message into MaxSize bytes returns what fits, the rest of
\* the message is dropped.
bytes_read(m) == IF m.len < MaxSize THEN m.len ELSE MaxSize

\* res after message m was read: data is cut down to what was read.
Received(m) ==
  [id |-> m.id, len |-> m.len, data_available |-> bytes_read(m),
   size |-> IF bytes_read(m) < MaxSize THEN bytes_read(m) ELSE MaxSize]

\* base.recvfrom: await_ready, and await_suspend if it answers no.
recvfrom(c) ==
  /\ kind = "datagram" /\ pc[c] = "idle"
  /\ err' = err \ {c}
  /\ \/ /\ broken
        /\ pc' = [pc EXCEPT ![c] = "threw"]
        /\ UNCHANGED <<inbox, event, res, empty>>
     \/ /\ ~broken /\ inbox = <<>>
        /\ pc' = [pc EXCEPT ![c] = "suspended"]
        /\ event' = event \cup {c}
        /\ res' = [res EXCEPT ![c] = NoResult]
        /\ UNCHANGED <<inbox, empty>>
     \/ /\ ~broken /\ inbox # <<>>
        /\ inbox' = Tail(inbox)
        /\ IF bytes_read(Head(inbox)) = 0
           THEN /\ pc' = [pc EXCEPT ![c] = "threw"]
                /\ empty' = empty \cup {Head(inbox).id}
                /\ UNCHANGED res
           ELSE /\ pc' = [pc EXCEPT ![c] = "resumed"]
                /\ res' = [res EXCEPT ![c] = Received(Head(inbox))]
                /\ UNCHANGED empty
        /\ UNCHANGED event
  /\ UNCHANGED <<kind, arrived, broken, returned>>

\* Another coroutine has taken the message: EAGAIN, and the event is added again.
on_read_ready_Again(c) ==
  /\ ~broken /\ inbox = <<>>
  /\ UNCHANGED <<inbox, event, err, pc, res, empty>>

\* on_read_ready; for a message of length zero err is set, and that is all.
on_read_ready(c) ==
  /\ kind = "datagram" /\ c \in event
  /\ \/ /\ broken
        /\ event' = event \ {c}
        /\ err' = err \cup {c}
        /\ pc' = [pc EXCEPT ![c] = "resumed"]
        /\ UNCHANGED <<inbox, res, empty>>
     \/ on_read_ready_Again(c)
     \/ /\ ~broken /\ inbox # <<>>
        /\ inbox' = Tail(inbox)
        /\ event' = event \ {c}
        /\ IF bytes_read(Head(inbox)) = 0
           THEN /\ err' = err \cup {c}
                /\ empty' = empty \cup {Head(inbox).id}
                /\ UNCHANGED <<pc, res>>
           ELSE /\ pc' = [pc EXCEPT ![c] = "resumed"]
                /\ res' = [res EXCEPT ![c] = Received(Head(inbox))]
                /\ UNCHANGED <<err, empty>>
  /\ UNCHANGED <<kind, arrived, broken, returned>>

-----------------------------------------------------------------------------
\* await_resume of either awaiter: the coroutine has its connection or message,
\* or an exception, after which it may try again.
await_resume(c) ==
  /\ pc[c] \in {"resumed", "threw"}
  /\ pc' = [pc EXCEPT ![c] = "idle"]
  /\ returned' = IF pc[c] = "threw" \/ c \in err THEN returned ELSE Append(returned, res[c].id)
  /\ UNCHANGED <<kind, inbox, arrived, broken, event, err, res, empty>>

Next ==
  \/ Connect \/ Datagram \/ Break
  \/ \E c \in Coro :
       \/ accept(c) \/ on_accept_ready(c)
       \/ recvfrom(c) \/ on_read_ready(c)
       \/ await_resume(c)

Spec == Init /\ [][Next]_vars

\* The event loop runs the callbacks of the events that are ready.
FairSpec == Spec /\ \A c \in Coro : WF_vars(on_accept_ready(c)) /\ WF_vars(on_read_ready(c))

-----------------------------------------------------------------------------
(* Properties *)

Holders == {c \in Coro : pc[c] = "resumed" /\ c \notin err}

\* Every connection and every message that is not empty goes to one coroutine:
\* the ones returned, the ones a resumed coroutine is about to return and the
\* ones that wait are all that have arrived, each once.  Who has a message sees
\* as much of it as fits into max_size, also when an earlier attempt of the
\* same awaiter found nothing.
OneOwner ==
  LET Returned == {returned[i] : i \in 1..Len(returned)}
      Held == {res[c].id : c \in Holders}
      Waiting == {inbox[i].id : i \in 1..Len(inbox)}
  IN  /\ Returned \cup Held \cup Waiting = (1..arrived) \ empty
      /\ Returned \cap Held = {} /\ Returned \cap Waiting = {} /\ Held \cap Waiting = {}
      /\ \A i, j \in 1..Len(returned) : returned[i] = returned[j] => i = j
      /\ \A c, d \in Holders : res[c].id = res[d].id => c = d
      /\ \A i, j \in 1..Len(inbox) : inbox[i].id = inbox[j].id => i = j
      /\ \A c \in Holders : kind = "datagram" =>
           res[c].len > 0 /\ res[c].size = IF res[c].len < MaxSize THEN res[c].len ELSE MaxSize

\* While something waits in the socket, a coroutine that waits is resumed,
\* others take what is there, or its callback has set err: a coroutine that
\* came too late for one arrival still waits for the next one.
ServedOrFailed ==
  \A c \in Coro : pc[c] = "suspended" /\ (inbox # <<>> \/ broken) ~>
    pc[c] = "resumed" \/ (inbox = <<>> /\ ~broken) \/ c \in err

\* A coroutine whose callback has set err is resumed, so that await_resume can
\* throw.  on_accept_ready sets err when accept(2) fails and leaves the coroutine
\* suspended, although await_resume has a case for it: "if (this->err) { throw
\* runtime_error("accept() failed"); }"; on_read_ready does so for a datagram of
\* length 0.  After an error of recvfrom(2) it resumes.
ErrorsThrown == \A c \in Coro : pc[c] = "suspended" /\ c \in err ~> pc[c] # "suspended"
=============================================================================
