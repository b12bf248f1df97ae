------------------------------ MODULE Callbacks ------------------------------
(***************************************************************************)
(* Detached coroutines that wait for callbacks of libevent: sleep and      *)
(* connect (Event.cc, Base.cc), DNS lookups (DNSBase.cc), responses to     *)
(* HTTP requests (HTTP/Connection.cc, Request.cc), and the callbacks that  *)
(* Base::once has been given for a DeferredFuture.  Every callback holds   *)
(* the address of an awaiter or of a coroutine; a coroutine may be         *)
(* cancelled while callbacks hold its addresses (Task.cc).                 *)
(***************************************************************************)
EXTENDS Integers, FiniteSets

CONSTANTS
  Coro,     \* the detached coroutines
  None,     \* the event loop, as the one that runs
  MaxOps    \* bound: how many operations a coroutine begins

ASSUME NoneAssumption == None \notin Coro

VARIABLES
  running,     \* the coroutine that runs, or None
  pc,          \* "new", "running", "waiting", "ended"
  pending,     \* the callbacks libevent holds: [coro, op, result]
  destroyed,   \* DetachedTaskCoroutine::destroyed
  destroys,    \* how often each coroutine was destroyed
  http,        \* who owns the evhttp_request of the coroutine's Request
  complete, awaiter,  \* is_complete and awaiter of the Request
  result,      \* what the last await gave
  dns,         \* the DNSBase exists
  undefined,   \* the operation with which something freed was used (then nothing more is said), or "no"
  cancelled,   \* history: who was cancelled while it waited for a lookup or for Base::once
  ops          \* how many operations were begun

vars == <<running, pc, pending, destroyed, destroys, http, complete, awaiter, result, dns, undefined, cancelled, ops>>
frames == <<destroyed, destroys, cancelled>>
request == <<http, complete, awaiter>>

Events == {"sleep", "connect"}
Ops == Events \cup {"lookup", "once", "request"}
Places == {"new", "running", "waiting", "ended"}
Records == [coro : Coro, op : Ops, result : {"ok", "shutdown"}]

Init ==
  /\ running = None /\ pc = [c \in Coro |-> "new"] /\ pending = {}
  /\ destroyed = [c \in Coro |-> FALSE] /\ destroys = [c \in Coro |-> 0]
  /\ http = [c \in Coro |-> "none"]
  /\ complete = [c \in Coro |-> FALSE] /\ awaiter = [c \in Coro |-> FALSE]
  /\ result = [c \in Coro |-> "none"]
  /\ dns = TRUE /\ undefined = "no" /\ cancelled = {} /\ ops = [c \in Coro |-> 0]

Callback(c, op) == [coro |-> c, op |-> op, result |-> "ok"]

-----------------------------------------------------------------------------
(* The coroutines *)

\* initial_suspend never suspends.
Start(c) ==
  /\ running = None /\ pc[c] = "new"
  /\ running' = c /\ pc' = [pc EXCEPT ![c] = "running"]
  /\ UNCHANGED <<pending, frames, request, result, dns, undefined, ops>>

Begin(c) == running = c /\ ops[c] < MaxOps /\ ops' = [ops EXCEPT ![c] = @ + 1]
Suspend(c) == running' = None /\ pc' = [pc EXCEPT ![c] = "waiting"]

\* await_suspend of TimeoutAwaiter and EventAwaiter: the event is added; of a
\* lookup: start_request; a future that is not done, of which resume_awaiters
\* hands the coroutine to Base::once at once.
await_suspend(c, op) ==
  /\ Begin(c) /\ op # "request" /\ (op = "lookup" => dns)
  /\ pending' = pending \cup {Callback(c, op)}
  /\ Suspend(c)
  /\ UNCHANGED <<frames, request, result, dns, undefined>>

\* event_add, evdns_base_resolve or event_base_once fail: an exception, which
\* the coroutine handles.
await_throws(c, op) ==
  /\ Begin(c) /\ op # "request" /\ (op = "lookup" => dns)
  /\ result' = [result EXCEPT ![c] = "threw"]
  /\ UNCHANGED <<running, pc, pending, frames, request, dns, undefined>>

\* Connection::send_request of the coroutine's own Request and Connection.  A
\* completed one is not sent again; one that evhttp_make_request cannot send it
\* frees.
send_request(c) ==
  /\ Begin(c) /\ http[c] \in {"none", "user"}
  /\ \/ /\ complete[c]
        /\ result' = [result EXCEPT ![c] = "threw"] /\ UNCHANGED <<pending, http>>
     \/ /\ ~complete[c]
        /\ http' = [http EXCEPT ![c] = "libevent"]
        /\ pending' = pending \cup {Callback(c, "request")}
        /\ UNCHANGED result
     \/ /\ ~complete[c]
        /\ http' = [http EXCEPT ![c] = "freed"] /\ result' = [result EXCEPT ![c] = "threw"]
        /\ UNCHANGED pending
  /\ UNCHANGED <<running, pc, frames, complete, awaiter, dns, undefined>>

\* Mutation of await_response: the response may have come, and is waited for.
await_response_Late(c) ==
  /\ running = c /\ http[c] \in {"libevent", "user"} /\ ~awaiter[c]
  /\ awaiter' = [awaiter EXCEPT ![c] = TRUE] /\ Suspend(c) /\ UNCHANGED result
  /\ UNCHANGED <<pending, frames, http, complete, dns, undefined, ops>>

\* co_await of the Awaiter that send_request returned, maybe after other
\* operations.
await_response(c) ==
  /\ running = c /\ http[c] \in {"libevent", "user"} /\ ~awaiter[c]
  /\ IF complete[c]
     THEN result[c] # "response" /\ result' = [result EXCEPT ![c] = "response"] /\ UNCHANGED <<running, pc, awaiter>>
     ELSE awaiter' = [awaiter EXCEPT ![c] = TRUE] /\ Suspend(c) /\ UNCHANGED result
  /\ UNCHANGED <<pending, frames, http, complete, dns, undefined, ops>>

\* Mutation of Kept: the events are not freed with their awaiters.
Kept_Events(c) == {p \in pending : p.coro # c \/ p.op # "request"}

\* The callbacks that libevent keeps when the frame of c is destroyed: the
\* awaiters' Events are freed, and the Connection with its requests, but no
\* lookup is cancelled, and Base::once cannot be undone.
Kept(c) == {p \in pending : p.coro # c \/ p.op \in {"lookup", "once"}}

\* Mutation of cancel: whoever comes destroys the coroutine.
cancel_Always(c) ==
  /\ destroyed' = [destroyed EXCEPT ![c] = TRUE]
  /\ destroys' = [destroys EXCEPT ![c] = @ + 1] /\ pending' = Kept(c)
  /\ http' = [http EXCEPT ![c] = IF @ = "libevent" THEN "freed" ELSE @]

\* DetachedTaskCoroutine::cancel
cancel(c) ==
  /\ destroyed' = [destroyed EXCEPT ![c] = TRUE]
  /\ IF destroyed[c] THEN UNCHANGED <<destroys, pending, http>>
     ELSE /\ destroys' = [destroys EXCEPT ![c] = @ + 1] /\ pending' = Kept(c)
          /\ http' = [http EXCEPT ![c] = IF @ = "libevent" THEN "freed" ELSE @]

\* The coroutine ends: final_suspend.
Return(c) ==
  /\ running = c
  /\ cancel(c) /\ running' = None /\ pc' = [pc EXCEPT ![c] = "ended"]
  /\ UNCHANGED <<complete, awaiter, result, dns, undefined, cancelled, ops>>

\* Somebody who has the DetachedTask cancels a coroutine that waits or ended.
Cancel(c) ==
  /\ pc[c] \in {"waiting", "ended"}
  /\ cancel(c) /\ pc' = [pc EXCEPT ![c] = "ended"]
  /\ cancelled' = cancelled \cup {p.coro : p \in {q \in pending : q.coro = c /\ q.op \in {"lookup", "once"}}}
  /\ UNCHANGED <<running, complete, awaiter, result, dns, undefined, ops>>

-----------------------------------------------------------------------------
(* Callbacks, which the event loop runs *)

Run(c, r) ==
  /\ running' = c /\ pc' = [pc EXCEPT ![c] = "running"]
  /\ result' = [result EXCEPT ![c] = r]

\* on_trigger, dispatch_on_request_complete, resume_coro: the coroutine is
\* resumed, if it still exists.
on_trigger(p) ==
  /\ p.op # "request"
  /\ IF destroyed[p.coro] THEN undefined' = p.op /\ UNCHANGED <<running, pc, result>>
     ELSE Run(p.coro, p.result) /\ UNCHANGED undefined
  /\ UNCHANGED request

\* Request::on_response for a response: the request becomes the user's.
on_response(p) ==
  LET c == p.coro IN
  /\ p.op = "request"
  /\ http' = [http EXCEPT ![c] = "user"] /\ complete' = [complete EXCEPT ![c] = TRUE]
  /\ IF awaiter[c] THEN Run(c, "response") ELSE UNCHANGED <<running, pc, result>>
  /\ UNCHANGED <<awaiter, undefined>>

\* Request::on_response when the connection has failed: libevent has freed the
\* request, calls with no request, and evhttp_request_own is applied to it.
on_failure(p) ==
  /\ p.op = "request" /\ undefined' = "request"
  /\ http' = [http EXCEPT ![p.coro] = "freed"]
  /\ UNCHANGED <<running, pc, result, complete, awaiter>>

Fire(p) ==
  /\ running = None /\ undefined = "no"
  /\ pending' = pending \ {p}
  /\ on_trigger(p) \/ on_response(p) \/ on_failure(p)
  /\ UNCHANGED <<frames, dns, ops>>

\* Mutation of FreeDNS: fail_requests is false.
FreeDNS_Silent ==
  /\ dns /\ dns' = FALSE
  /\ pending' = {p \in pending : p.op # "lookup"}
  /\ UNCHANGED <<running, pc, frames, request, result, undefined, ops>>

\* ~DNSBase: the lookups fail, with callbacks.
FreeDNS ==
  /\ dns /\ dns' = FALSE
  /\ pending' = {[p EXCEPT !.result = IF p.op = "lookup" THEN "shutdown" ELSE @] : p \in pending}
  /\ UNCHANGED <<running, pc, frames, request, result, undefined, ops>>

Next ==
  /\ undefined = "no"
  /\ \/ \E c \in Coro :
          \/ Start(c) \/ send_request(c) \/ await_response(c) \/ Return(c) \/ Cancel(c)
          \/ \E op \in Ops : await_suspend(c, op) \/ await_throws(c, op)
     \/ \E p \in pending : Fire(p)
     \/ FreeDNS

\* The event loop runs the callbacks: timers expire, lookups and requests have
\* their timeouts; a coroutine that runs suspends or ends.
Spec ==
  /\ Init /\ [][Next]_vars
  /\ \A c \in Coro : /\ WF_vars(\E p \in pending : p.coro = c /\ Fire(p))
                     /\ WF_vars(Return(c))

-----------------------------------------------------------------------------
(* Properties *)

\* The types of the variables that say which callbacks and frames there are.
TypeOK ==
  /\ running \in Coro \cup {None} /\ pc \in [Coro -> Places]
  /\ pending \in SUBSET Records
  /\ destroyed \in [Coro -> BOOLEAN] /\ destroys \in [Coro -> Nat]
  /\ complete \in [Coro -> BOOLEAN] /\ awaiter \in [Coro -> BOOLEAN]

\* A coroutine is destroyed once, when it ends or is cancelled, also when it is
\* cancelled after it ended (DetachedTaskCoroutine::cancel, FinalAwaiter).
DestroyedOnce == \A c \in Coro : destroys[c] = IF pc[c] = "ended" THEN 1 ELSE 0

\* No callback uses a coroutine, an awaiter or a request that is gone, except
\* the ones of lookups and of Base::once whose coroutine was cancelled, and the
\* one of a request that failed; and the response can be examined as long as
\* the coroutine exists, also when it came before it was awaited, and after
\* further awaits (on_response).
NothingDangling ==
  /\ undefined \notin Events
  /\ undefined \in {"lookup", "once"} => cancelled # {}
  /\ \A p \in pending : destroyed[p.coro] => p.coro \in cancelled
  /\ \A c \in Coro : complete[c] /\ pc[c] # "ended" => http[c] = "user"

\* A coroutine that waits has one callback that will resume it, whatever was
\* cancelled, freed or answered before it began to wait.
ResumedByOne ==
  undefined = "no" =>
    \A c \in Coro : pc[c] = "waiting" =>
      Cardinality({p \in pending : p.coro = c /\ (p.op = "request" => awaiter[c])}) = 1

\* Who waits is resumed or cancelled, also when the DNSBase is destroyed.
WaitEnds == \A c \in Coro : pc[c] = "waiting" ~> pc[c] # "waiting" \/ undefined # "no"
=============================================================================
