------------------------------ MODULE Channel ------------------------------
(***************************************************************************)
(* Channel.hh: an awaitable queue.  Coroutines read and write one Channel; *)
(* write() resumes a waiting reader synchronously, inside the call, and    *)
(* the reader may read, write or suspend in turn before write() returns.   *)
(*                                                                         *)
(* The waiters are a std::forward_list, extended at an iterator that is    *)
(* kept from one await_suspend to the next.  insert_it says where it       *)
(* points: to before_begin(), to the last node of the list ("back"), or to *)
(* a node that pop_front() has freed ("dangling").                         *)
(***************************************************************************)
EXTENDS Integers, Sequences

CONSTANTS
  Coro,        \* the coroutines that use the channel
  MaxWrites    \* bound: how many items are written

VARIABLES
  queue,           \* Channel::queue; the items are numbered as they are written
  awaiting_coros,  \* Channel::awaiting_coros, what is reachable from its head
  insert_it,       \* Channel::awaiting_coros_insert_it
  stack,           \* the coroutines being run, innermost first; <<>>: the event loop
  pc,              \* where each coroutine is
  aborted,         \* the process was ended by heap corruption
  sent, got,       \* history: number of items written; the items read, in order
  since, clock     \* history: when each suspended reader began to wait

vars == <<queue, awaiting_coros, insert_it, stack, pc, aborted, sent, got, since, clock>>

Items == 1..MaxWrites

\* What front() of an empty deque may give.
Garbage == 0

Init ==
  /\ queue = <<>>
  /\ awaiting_coros = <<>>
  /\ insert_it = "before_begin"
  /\ stack = <<>>
  /\ pc = [c \in Coro |-> "idle"]
  /\ aborted = FALSE
  /\ sent = 0 /\ got = <<>>
  /\ since = [c \in Coro |-> 0] /\ clock = 0

Running(c) == ~aborted /\ stack # <<>> /\ Head(stack) = c

-----------------------------------------------------------------------------
(* The coroutines outside of the channel's code *)

\* The event loop resumes (or starts) a coroutine that does not wait for the
\* channel.
Resume(c) ==
  /\ ~aborted /\ stack = <<>> /\ pc[c] = "idle"
  /\ pc' = [pc EXCEPT ![c] = "code"]
  /\ stack' = <<c>>
  /\ UNCHANGED <<queue, awaiting_coros, insert_it, aborted, sent, got, since, clock>>

\* The running coroutine suspends for something else, or ends; whoever resumed
\* it goes on.
Suspend(c) ==
  /\ Running(c) /\ pc[c] = "code"
  /\ pc' = [pc EXCEPT ![c] = "idle"]
  /\ stack' = Tail(stack)
  /\ UNCHANGED <<queue, awaiting_coros, insert_it, aborted, sent, got, since, clock>>

-----------------------------------------------------------------------------
(* Channel *)

\* Mutation of await_resume: the reader takes the newest item.
await_resume_Back(c) ==
  /\ Running(c) /\ pc[c] = "resumed"
  /\ got' = Append(got, IF queue = <<>> THEN Garbage ELSE queue[Len(queue)])
  /\ queue' = IF queue = <<>> THEN <<>> ELSE SubSeq(queue, 1, Len(queue) - 1)
  /\ pc' = [pc EXCEPT ![c] = "code"]
  /\ UNCHANGED <<awaiting_coros, insert_it, stack, aborted, sent, since, clock>>

\* ReadAwaiter::await_resume: the reader takes the front item.
await_resume(c) ==
  /\ Running(c) /\ pc[c] = "resumed"
  /\ got' = Append(got, IF queue = <<>> THEN Garbage ELSE queue[1])
  /\ queue' = IF queue = <<>> THEN <<>> ELSE Tail(queue)
  /\ pc' = [pc EXCEPT ![c] = "code"]
  /\ UNCHANGED <<awaiting_coros, insert_it, stack, aborted, sent, since, clock>>

\* ReadAwaiter::await_ready of a queue with items: the reader goes on without
\* suspending.
read_ready(c) ==
  /\ Running(c) /\ pc[c] = "code"
  /\ queue # <<>>
  /\ pc' = [pc EXCEPT ![c] = "resumed"]
  /\ UNCHANGED <<queue, awaiting_coros, insert_it, stack, aborted, sent, got, since, clock>>

\* Mutation of emplace_after: the new waiter replaces the others.
emplace_after_Only(c) ==
  /\ awaiting_coros' = <<c>>
  /\ insert_it' = "back"
  /\ UNCHANGED aborted

\* emplace_after(insert_it, coro).  After before_begin() or the last node, the
\* new node is the last one.  After a freed node it is undefined what happens:
\* the list's head does not point to that node any more, so the store into it
\* cannot link the new node; it can corrupt the heap and end the process.
emplace_after(c) ==
  \/ /\ insert_it \in {"before_begin", "back"}
     /\ awaiting_coros' = Append(awaiting_coros, c)
     /\ insert_it' = "back"
     /\ UNCHANGED aborted
  \/ /\ insert_it = "dangling"
     /\ UNCHANGED <<awaiting_coros, insert_it>>
     /\ aborted' \in BOOLEAN

\* ReadAwaiter::await_ready of an empty queue, then await_suspend.
read_suspend(c) ==
  /\ Running(c) /\ pc[c] = "code"
  /\ queue = <<>>
  /\ emplace_after(c)
  /\ pc' = [pc EXCEPT ![c] = "reading"]
  /\ stack' = Tail(stack)
  /\ clock' = clock + 1
  /\ since' = [since EXCEPT ![c] = clock']
  /\ UNCHANGED <<queue, sent, got>>

\* resume_awaiter: pop the first waiter and resume it, on top of the writer.
\* pop_front frees the node insert_it points to when it is the last one.
resume_awaiter ==
  IF awaiting_coros = <<>>
  THEN UNCHANGED <<awaiting_coros, insert_it, stack, pc, since>>
  ELSE /\ awaiting_coros' = Tail(awaiting_coros)
       /\ insert_it' = IF Len(awaiting_coros) = 1 THEN "dangling" ELSE insert_it
       /\ stack' = <<Head(awaiting_coros)>> \o stack
       /\ pc' = [pc EXCEPT ![Head(awaiting_coros)] = "resumed"]
       /\ since' = [since EXCEPT ![Head(awaiting_coros)] = 0]

\* Mutation of write: the item is not queued when a reader waits.
write_Unqueued(c) ==
  /\ Running(c) /\ pc[c] = "code"
  /\ sent < MaxWrites
  /\ sent' = sent + 1
  /\ queue' = IF awaiting_coros = <<>> THEN Append(queue, sent') ELSE queue
  /\ resume_awaiter
  /\ UNCHANGED <<aborted, got, clock>>
\* Channel::write by the running coroutine.
write(c) ==
  /\ Running(c) /\ pc[c] = "code"
  /\ sent < MaxWrites
  /\ sent' = sent + 1
  /\ queue' = Append(queue, sent')
  /\ resume_awaiter
  /\ UNCHANGED <<aborted, got, clock>>

Next ==
  \E c \in Coro :
    \/ Resume(c)
    \/ Suspend(c)
    \/ read_ready(c)
    \/ read_suspend(c)
    \/ await_resume(c)
    \/ write(c)

Spec == Init /\ [][Next]_vars

-----------------------------------------------------------------------------
(* Properties *)

\* Exactly once and in order: the items read so far, then the ones in the
\* queue, are the items written, whoever reads and however write() nests.
FirstInFirstOut ==
  /\ Len(got) + Len(queue) = sent
  /\ \A i \in 1..Len(got) : got[i] = i
  /\ \A i \in 1..Len(queue) : queue[i] = Len(got) + i

\* A reader that goes on to await_resume finds an item, and only the innermost
\* coroutine is ever there: what write() enqueued for the reader it resumes
\* cannot be taken by another one first.  Nobody overtakes: while a reader is
\* linked, the queue holds at most the item of the reader being resumed.
ItemForResumed ==
  /\ \A i \in 1..Len(stack) : pc[stack[i]] = "resumed" => i = 1 /\ queue # <<>>
  /\ awaiting_coros # <<>> =>
       Len(queue) = IF stack # <<>> /\ pc[Head(stack)] = "resumed" THEN 1 ELSE 0

Linked == {awaiting_coros[i] : i \in 1..Len(awaiting_coros)}

\* The list has suspended readers, in the order in which they began to wait,
\* so that write() wakes the one that has waited the longest; and as long as
\* it has never run empty by a pop_front, every suspended reader is in it.
LinkedUntilDrained ==
  /\ \A i, j \in 1..Len(awaiting_coros) :
       i < j => since[awaiting_coros[i]] < since[awaiting_coros[j]]
  /\ \A c \in Linked : pc[c] = "reading"
  /\ insert_it # "dangling" => \A c \in Coro : pc[c] = "reading" => c \in Linked

\* README: "If the queue is empty, waits for someone to call .write() on it,
\* then returns what they passed to .write()."  When everything has run, no
\* reader still waits while the queue has items.
NoReaderLeftWaiting ==
  stack = <<>> /\ ~aborted /\ queue # <<>> => \A c \in Coro : pc[c] # "reading"
=============================================================================
