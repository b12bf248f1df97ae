------------------------------- MODULE Future -------------------------------
(***************************************************************************)
(* Future.hh, and DeferredFuture of Base.hh: a value that several          *)
(* coroutines may await.  set_result, set_exception and cancel store the   *)
(* outcome and resume the awaiting coroutines one after the other inside   *)
(* the call; each of them runs, and may use the future in turn, before the *)
(* loop looks at the list again.                                           *)
(*                                                                         *)
(* As in Channel, the awaiting coroutines are a std::forward_list that is  *)
(* extended at an iterator kept from one await_suspend to the next.        *)
(***************************************************************************)
EXTENDS Integers, Sequences

CONSTANT Coro   \* the coroutines that use the future

VARIABLES
  deferred,        \* it is a DeferredFuture
  value,           \* FutureBase::value
  awaiting_coros,  \* FutureBase::awaiting_coros, what is reachable from its head
  insert_it,       \* FutureBase::awaiting_coros_insert_it
  stack,           \* the coroutines being run, innermost first; <<>>: the event loop
  pc,              \* where each coroutine is
  once,            \* the coroutines that event_base_once callbacks will resume
  outcome,         \* history: what each coroutine's last co_await of the future gave
  began, resumed   \* history: the coroutines as they began to wait, as they were resumed

vars == <<deferred, value, awaiting_coros, insert_it, stack, pc, once, outcome, began, resumed>>

\* The alternatives of the variant; cancel stores an exception as set_exception
\* does.
Pending == "monostate"
Outcomes == {"result", "exception"}

\* A Future is constructed pending or with a value.  The latter constructors
\* leave the iterator uninitialized.
Init ==
  /\ deferred \in BOOLEAN
  /\ \/ value = Pending /\ insert_it = "before_begin"
     \/ value = "result" /\ insert_it = "uninitialized"
  /\ awaiting_coros = <<>>
  /\ stack = <<>>
  /\ pc = [c \in Coro |-> "idle"]
  /\ once = {}
  /\ outcome = [c \in Coro |-> "none"]
  /\ began = <<>> /\ resumed = <<>>

done == value # Pending

Running(c) == stack # <<>> /\ Head(stack) = c

-----------------------------------------------------------------------------
(* The coroutines outside of the future's code *)

\* The event loop starts a coroutine.
Start(c) ==
  /\ stack = <<>> /\ pc[c] = "idle"
  /\ pc' = [pc EXCEPT ![c] = "code"]
  /\ stack' = <<c>>
  /\ UNCHANGED <<deferred, value, awaiting_coros, insert_it, once, outcome, began, resumed>>

\* The running coroutine suspends for something else, or ends.
Suspend(c) ==
  /\ Running(c) /\ pc[c] = "code"
  /\ pc' = [pc EXCEPT ![c] = "idle"]
  /\ stack' = Tail(stack)
  /\ UNCHANGED <<deferred, value, awaiting_coros, insert_it, once, outcome, began, resumed>>

-----------------------------------------------------------------------------
(* co_await of the future *)

\* result(): the value or the exception; of a pending future, std::get throws
\* bad_variant_access.
result == IF done THEN value ELSE "bad_variant_access"

\* await_ready of a future that is done, then await_resume.
await_ready(c) ==
  /\ Running(c) /\ pc[c] = "code" /\ outcome[c] = "none"
  /\ done
  /\ outcome' = [outcome EXCEPT ![c] = result]
  /\ UNCHANGED <<deferred, value, awaiting_coros, insert_it, stack, pc, once, began, resumed>>

\* Mutation of await_suspend: the new node is always the first one.
await_suspend_First(c) ==
  /\ Running(c) /\ pc[c] = "code" /\ outcome[c] = "none"
  /\ ~done
  /\ awaiting_coros' = <<c>> \o awaiting_coros
  /\ insert_it' = "back"
  /\ pc' = [pc EXCEPT ![c] = "waiting"]
  /\ stack' = Tail(stack)
  /\ began' = Append(began, c)
  /\ UNCHANGED <<deferred, value, once, outcome, resumed>>

\* await_ready of a pending future, then await_suspend.  After a node that
\* pop_front has freed, emplace_after cannot link the new node (see Channel).
await_suspend(c) ==
  /\ Running(c) /\ pc[c] = "code" /\ outcome[c] = "none"
  /\ ~done
  /\ awaiting_coros' = IF insert_it \in {"before_begin", "back"}
                       THEN Append(awaiting_coros, c) ELSE awaiting_coros
  /\ insert_it' = IF insert_it = "before_begin" THEN "back" ELSE insert_it
  /\ pc' = [pc EXCEPT ![c] = "waiting"]
  /\ stack' = Tail(stack)
  /\ began' = Append(began, c)
  /\ UNCHANGED <<deferred, value, once, outcome, resumed>>

\* await_resume of a coroutine that was suspended.
await_resume(c) ==
  /\ Running(c) /\ pc[c] = "awaited"
  /\ outcome' = [outcome EXCEPT ![c] = result]
  /\ pc' = [pc EXCEPT ![c] = "code"]
  /\ UNCHANGED <<deferred, value, awaiting_coros, insert_it, stack, once, began, resumed>>

-----------------------------------------------------------------------------
(* Resolving the future *)

\* Mutation of set: done() is not tested.
set_Again(c, v) ==
  /\ Running(c) /\ pc[c] = "code"
  /\ value' = v
  /\ pc' = [pc EXCEPT ![c] = "resume_awaiters"]
  /\ UNCHANGED <<deferred, awaiting_coros, insert_it, stack, once, outcome, began, resumed>>
\* set_result, set_exception and cancel throw when the future is done, and
\* otherwise store the outcome and enter FutureBase::resume_awaiters: it is
\* not virtual, so this is what they call in a DeferredFuture too.
set(c, v) ==
  /\ Running(c) /\ pc[c] = "code"
  /\ ~done
  /\ value' = v
  /\ pc' = [pc EXCEPT ![c] = "resume_awaiters"]
  /\ UNCHANGED <<deferred, awaiting_coros, insert_it, stack, once, outcome, began, resumed>>

\* pop_front frees the node insert_it points to when it is the last one.
pop_front ==
  /\ awaiting_coros # <<>>
  /\ awaiting_coros' = Tail(awaiting_coros)
  /\ insert_it' = IF Len(awaiting_coros) = 1 THEN "dangling" ELSE insert_it

\* FutureBase::resume_awaiters, one turn of the loop: resume the first one on
\* top of the setter.
resume_awaiter(c) ==
  /\ Running(c) /\ pc[c] = "resume_awaiters"
  /\ pop_front
  /\ stack' = <<Head(awaiting_coros)>> \o stack
  /\ pc' = [pc EXCEPT ![Head(awaiting_coros)] = "awaited"]
  /\ resumed' = Append(resumed, Head(awaiting_coros))
  /\ UNCHANGED <<deferred, value, once, outcome, began>>

\* DeferredFuture::resume_awaiters, called by a coroutine (the protected one of
\* a Future cannot be): every awaiting coroutine gets a callback of its own.
\* The loop runs nothing else, so it is one step.
schedule_awaiters(c) ==
  /\ deferred
  /\ Running(c) /\ pc[c] = "code" /\ awaiting_coros # <<>>
  /\ awaiting_coros' = <<>>
  /\ insert_it' = "dangling"
  /\ once' = once \cup {awaiting_coros[i] : i \in 1..Len(awaiting_coros)}
  /\ UNCHANGED <<deferred, value, stack, pc, outcome, began, resumed>>

\* The loop is over: the setter goes on.
set_return(c) ==
  /\ Running(c) /\ pc[c] = "resume_awaiters"
  /\ awaiting_coros = <<>>
  /\ pc' = [pc EXCEPT ![c] = "code"]
  /\ UNCHANGED <<deferred, value, awaiting_coros, insert_it, stack, once, outcome, began, resumed>>

\* Mutation of resume_coro: running one callback drops the others.
resume_coro_Drop(c) ==
  /\ stack = <<>> /\ c \in once
  /\ once' = {}
  /\ stack' = <<c>>
  /\ pc' = [pc EXCEPT ![c] = "awaited"]
  /\ resumed' = Append(resumed, c)
  /\ UNCHANGED <<deferred, value, awaiting_coros, insert_it, outcome, began>>

\* The event loop runs a callback of schedule_awaiters; libevent does not
\* promise an order among timers that expire together.
resume_coro(c) ==
  /\ stack = <<>> /\ c \in once
  /\ once' = once \ {c}
  /\ stack' = <<c>>
  /\ pc' = [pc EXCEPT ![c] = "awaited"]
  /\ resumed' = Append(resumed, c)
  /\ UNCHANGED <<deferred, value, awaiting_coros, insert_it, outcome, began>>

Next ==
  \E c \in Coro :
    \/ Start(c)
    \/ Suspend(c)
    \/ await_ready(c)
    \/ await_suspend(c)
    \/ await_resume(c)
    \/ \E v \in Outcomes : set(c, v)
    \/ resume_awaiter(c)
    \/ set_return(c)
    \/ schedule_awaiters(c)
    \/ resume_coro(c)

Spec == Init /\ [][Next]_vars

-----------------------------------------------------------------------------
(* Properties *)

Linked == {awaiting_coros[i] : i \in 1..Len(awaiting_coros)}

\* README: "Coroutines are resumed in the order they began awaiting."  What was
\* resumed, then the list, are the coroutines as they began to wait; so nobody
\* is forgotten and nobody overtakes, also when coroutines run by the loop use
\* the future themselves.  Nobody is resumed twice: who is in the list or in a
\* callback waits, and is there once.
ResumedInOrder ==
  /\ \A c \in Linked \cup once : pc[c] = "waiting"
  /\ Linked \cap once = {}
  /\ \A i, j \in 1..Len(awaiting_coros) : awaiting_coros[i] = awaiting_coros[j] => i = j
  /\ ~deferred =>
       /\ Len(began) = Len(resumed) + Len(awaiting_coros)
       /\ \A i \in 1..Len(resumed) : began[i] = resumed[i]
       /\ \A i \in 1..Len(awaiting_coros) : began[Len(resumed) + i] = awaiting_coros[i]

\* All coroutines get one and the same outcome, the one the future was resolved
\* with; only from a DeferredFuture, and only after resume_awaiters was called,
\* a co_await may give a bad_variant_access instead.
OutcomeOrBadAccess ==
  \A c \in Coro : outcome[c] # "none" =>
    \/ done /\ outcome[c] = value
    \/ deferred /\ outcome[c] = "bad_variant_access" /\ insert_it = "dangling"

\* README: of a DeferredFuture "the awaiting coroutines are resumed via
\* callbacks on a Base's event loop, instead of being resumed immediately
\* during the set_value/set_exception call": nothing runs on top of a setter.
ResumedByEventLoop ==
  deferred => \A i \in 1..Len(stack) : pc[stack[i]] = "resume_awaiters" => i = 1

=============================================================================
