-------------------------------- MODULE Task --------------------------------
(***************************************************************************)
(* Task<T>, its awaiters and the combinators multi, all, any and           *)
(* all_limit (src/src/Task.hh, src/src/Task.cc).                           *)
(*                                                                         *)
(* Everything runs on one thread.  resume() is an ordinary call: it        *)
(* returns when the resumed coroutine suspends or finishes, so the         *)
(* coroutines that have been resumed and have not suspended since form a   *)
(* stack.  Its head runs; the others are inside a call of start() or of    *)
(* resume(); when it is empty the event loop runs.                         *)
(*                                                                         *)
(* The coroutines form a forest: Owner[t] is the coroutine whose code      *)
(* holds the Task object t and is the only one to start or await it, and a *)
(* coroutine without an owner is a DetachedTask.  A combinator is awaited  *)
(* as soon as it is made, so control goes straight from the awaiting       *)
(* coroutine to the combinator and back: the two are one process here, and *)
(* fr[c] is the frame of the combinator that c is inside of.               *)
(***************************************************************************)
EXTENDS Integers, Sequences, FiniteSets

CONSTANTS
  N,      \* the coroutines are 1..N
  Owner,  \* the coroutine that owns each one, Null for a DetachedTask
  Fuel,   \* how often the code of each one suspends, starts or awaits (bound)
  Limits  \* the values of all_limit's parallelism

Coro == 1..N
Null == 0

ASSUME NAssumption == N \in Nat
ASSUME OwnerAssumption == Owner \in [Coro -> Coro \cup {Null}]
                          /\ \A t \in Coro : Owner[t] < t
ASSUME FuelAssumption == Fuel \in [Coro -> Nat]
ASSUME LimitsAssumption == Limits \subseteq Nat

VARIABLES
  started,   \* TaskBase::started
  awaiting,  \* TaskPromise::awaiting_coro
  finished,  \* the coroutines that have returned or thrown
  pc,        \* where each coroutine is
  stack,     \* the coroutines that have been resumed and are not suspended
  fr,        \* the frame of the combinator each coroutine is inside of
  fuel       \* what is left of Fuel

vars == <<started, awaiting, finished, pc, stack, fr, fuel>>

Kinds == {"await", "multi", "all", "any", "all_limit"}
PCs == {"body",          \* in its own code (or not started, or finished)
        "blocked",       \* suspended on something outside this module
        "starting",      \* in the loop that starts the tasks of the range
        "waiting",       \* in the loop that awaits the tasks of the range
        "limiting",      \* in the loop of all_limit
        "await_resume",  \* in a co_await: await_resume is what runs next
        "returning",     \* any has its task
        "logic_error"}   \* AnyAwaiter threw
Frame == [kind : Kinds, lo : Nat \ {0}, hi : 0..N, it : 0..N+1, lim : Nat,
          aw : SUBSET Coro, fresh : SUBSET Coro, got : Coro \cup {Null}]

NoFrame == [kind |-> "await", lo |-> 1, hi |-> 0, it |-> 1, lim |-> 0,
            aw |-> {}, fresh |-> {}, got |-> Null]

Init ==
  /\ started  = [c \in Coro |-> FALSE]
  /\ awaiting = [c \in Coro |-> Null]
  /\ finished = {}
  /\ pc       = [c \in Coro |-> "body"]
  /\ stack    = <<>>
  /\ fr       = [c \in Coro |-> NoFrame]
  /\ fuel     = Fuel

done(t) == t \in finished
Active == {stack[i] : i \in 1..Len(stack)}
Current == IF stack = <<>> THEN Null ELSE Head(stack)
Running(c) == Current = c
TaskRange(c) == fr[c].lo .. fr[c].hi

-----------------------------------------------------------------------------
(* TaskBase *)

\* A call of t.start() by the running coroutine.
start(t) ==
  IF started[t]
  THEN UNCHANGED <<started, stack>>
  ELSE /\ started' = [started EXCEPT ![t] = TRUE]
       /\ stack' = <<t>> \o stack

\* Mutation of FinalAwaiter: nobody is resumed.
FinalAwaiter_Noop(t) ==
  /\ finished' = finished \cup {t}
  /\ stack' = Tail(stack)

\* t finishes: return_value or unhandled_exception stores what it returned or
\* threw, which nothing here tells apart, and FinalAwaiter transfers control to
\* the coroutine linked to t, if there is one.
FinalAwaiter(t) ==
  /\ finished' = finished \cup {t}
  /\ stack' = IF awaiting[t] # Null THEN <<awaiting[t]>> \o Tail(stack)
                                    ELSE Tail(stack)

\* Mutation of AwaiterBase: await_ready always answers no.
AwaiterBase_NeverReady(c, t) ==
  /\ awaiting' = [awaiting EXCEPT ![t] = c]
  /\ started' = [started EXCEPT ![t] = TRUE]
  /\ stack' = IF started[t] THEN Tail(stack) ELSE <<t>> \o Tail(stack)

\* co_await of one task by c: AwaiterBase::await_ready and await_suspend.
AwaiterBase(c, t) ==
  \/ /\ done(t)
     /\ UNCHANGED <<started, awaiting, stack>>
  \/ /\ ~done(t)
     /\ awaiting' = [awaiting EXCEPT ![t] = c]
     /\ started' = [started EXCEPT ![t] = TRUE]
     /\ stack' = IF started[t] THEN Tail(stack) ELSE <<t>> \o Tail(stack)

\* What AnyAwaiter::await_ready may answer: its loop runs over an unordered
\* set, returns at the first task that is done, throws at the first one that
\* is not started, and answers no when there is neither.
ReadyOutcomes(aw) ==
  {o \in {"ready", "throw", "suspend"} :
     CASE o = "ready"   -> \E t \in aw : done(t)
       [] o = "throw"   -> \E t \in aw : ~started[t]
       [] o = "suspend" -> \A t \in aw : started[t] /\ ~done(t)}

\* co_await of an AnyAwaiter by c: await_ready and await_suspend.
AnyAwait(c) ==
  \E o \in ReadyOutcomes(fr[c].aw) :
    /\ pc' = [pc EXCEPT ![c] = IF o = "throw" THEN "logic_error" ELSE "await_resume"]
    /\ awaiting' = [t \in Coro |-> IF o = "suspend" /\ t \in fr[c].aw THEN c
                                                                    ELSE awaiting[t]]
    /\ stack' = IF o = "suspend" THEN Tail(stack) ELSE stack

-----------------------------------------------------------------------------
(* The code of a coroutine *)

\* The event loop runs, or a coroutine is in its own code.
CodeRuns == Current # Null => pc[Current] = "body"

\* A DetachedTask is called, by main() or by a running coroutine; it does not
\* suspend initially.
Spawn(c) ==
  /\ Owner[c] = Null /\ ~started[c]
  /\ CodeRuns
  /\ started' = [started EXCEPT ![c] = TRUE]
  /\ stack' = <<c>> \o stack
  /\ UNCHANGED <<awaiting, finished, pc, fr, fuel>>

UseFuel(c) == fuel[c] > 0 /\ fuel' = [fuel EXCEPT ![c] = @ - 1]

\* c calls start() on one of its tasks.
Start(c, t) ==
  /\ Running(c) /\ pc[c] = "body" /\ Owner[t] = c
  /\ UseFuel(c)
  /\ start(t)
  /\ UNCHANGED <<awaiting, finished, pc, fr>>

\* c awaits something outside this module (an event, a Future, a Channel).
Block(c) ==
  /\ Running(c) /\ pc[c] = "body"
  /\ UseFuel(c)
  /\ pc' = [pc EXCEPT ![c] = "blocked"]
  /\ stack' = Tail(stack)
  /\ UNCHANGED <<started, awaiting, finished, fr>>

\* What c waits for happens: the event loop or the code of the running
\* coroutine (Future::set_result, Channel::write) resumes c.
Wake(c) ==
  /\ pc[c] = "blocked"
  /\ CodeRuns
  /\ pc' = [pc EXCEPT ![c] = "body"]
  /\ stack' = <<c>> \o stack
  /\ UNCHANGED <<started, awaiting, finished, fr, fuel>>

\* c returns or throws (a DetachedTask that throws ends the process).
Finish(c) ==
  /\ Running(c) /\ pc[c] = "body"
  /\ FinalAwaiter(c)
  /\ UNCHANGED <<started, awaiting, pc, fr, fuel>>

\* The ranges of c's container; an empty one is 1..0 wherever it lies.
Ranges(c) ==
  {r \in Coro \X Coro : r[1] <= r[2] /\ \A t \in r[1]..r[2] : Owner[t] = c} \cup {<<1, 0>>}

\* c co_awaits one of its tasks, or multi, all, any or all_limit of the tasks
\* lo..hi of its container.  multi takes at least one task.
Call(c, kind, lo, hi, lim) ==
  /\ Running(c) /\ pc[c] = "body"
  /\ kind = "await" => lo = hi
  /\ kind = "multi" => lo <= hi
  /\ UseFuel(c)
  /\ pc' = [pc EXCEPT ![c] = CASE kind = "await"     -> "waiting"
                               [] kind = "all_limit" -> "limiting"
                               [] OTHER              -> "starting"]
  /\ fr' = [fr EXCEPT ![c] =
       [kind |-> kind, lo |-> lo, hi |-> hi, it |-> lo, aw |-> {},
        lim |-> IF kind = "all_limit" THEN lim ELSE 0,
        fresh |-> {t \in lo..hi : ~started[t]}, got |-> Null]]
  /\ UNCHANGED <<started, awaiting, finished, stack>>

-----------------------------------------------------------------------------
(* The combinators *)

\* multi, all, any: the next task of the range is started (any: and added to
\* the AnyAwaiter).
StartNext(c) ==
  /\ Running(c) /\ pc[c] = "starting" /\ fr[c].it <= fr[c].hi
  /\ start(fr[c].it)
  /\ fr' = [fr EXCEPT ![c].it = @ + 1,
                      ![c].aw = IF fr[c].kind = "any" THEN @ \cup {fr[c].it} ELSE @]
  /\ UNCHANGED <<awaiting, finished, pc, fuel>>

\* multi, all: every task is started.  all awaits them first to last; in multi,
\* which recurs before it awaits, the last one comes first.
StartDone(c) ==
  /\ Running(c) /\ pc[c] = "starting" /\ fr[c].it > fr[c].hi
  /\ fr[c].kind # "any"
  /\ pc' = [pc EXCEPT ![c] = "waiting"]
  /\ fr' = [fr EXCEPT ![c].it = IF fr[c].kind = "multi" THEN fr[c].hi ELSE fr[c].lo]
  /\ UNCHANGED <<started, awaiting, finished, stack, fuel>>

\* await, multi, all: co_await of the task at it.
AwaitTask(c) ==
  /\ Running(c) /\ pc[c] = "waiting" /\ fr[c].it \in TaskRange(c)
  /\ AwaiterBase(c, fr[c].it)
  /\ pc' = [pc EXCEPT ![c] = "await_resume"]
  /\ UNCHANGED <<finished, fr, fuel>>

UsesAny(c) == fr[c].kind \in {"any", "all_limit"}

\* await, multi, all: the co_await is over, on to the next task.
\* NoReturnAwaiter::await_resume leaves the result in the promise.
WaitResume(c) ==
  /\ Running(c) /\ pc[c] = "await_resume" /\ ~UsesAny(c)
  /\ pc' = [pc EXCEPT ![c] = "waiting"]
  /\ fr' = [fr EXCEPT ![c].it = IF fr[c].kind = "multi" THEN @ - 1 ELSE @ + 1]
  /\ UNCHANGED <<started, awaiting, finished, stack, fuel>>

\* Mutations of LimitStart: one task too many; a task is added but not started.
LimitStart_TooMany(c) ==
  /\ Running(c) /\ pc[c] = "limiting"
  /\ fr[c].it <= fr[c].hi /\ Cardinality(fr[c].aw) <= fr[c].lim
  /\ start(fr[c].it)
  /\ fr' = [fr EXCEPT ![c].it = @ + 1, ![c].aw = @ \cup {fr[c].it}]
  /\ UNCHANGED <<awaiting, finished, pc, fuel>>
LimitStart_Unstarted(c) ==
  /\ Running(c) /\ pc[c] = "limiting"
  /\ fr[c].it <= fr[c].hi /\ Cardinality(fr[c].aw) < fr[c].lim
  /\ fr' = [fr EXCEPT ![c].it = @ + 1, ![c].aw = @ \cup {fr[c].it}]
  /\ UNCHANGED <<started, stack, awaiting, finished, pc, fuel>>

\* all_limit: there is room, start the next task and add it to the AnyAwaiter.
LimitStart(c) ==
  /\ Running(c) /\ pc[c] = "limiting"
  /\ fr[c].it <= fr[c].hi /\ Cardinality(fr[c].aw) < fr[c].lim
  /\ start(fr[c].it)
  /\ fr' = [fr EXCEPT ![c].it = @ + 1, ![c].aw = @ \cup {fr[c].it}]
  /\ UNCHANGED <<awaiting, finished, pc, fuel>>

\* any: every task is started.
\* all_limit: too many tasks run, or there are only running ones left.
AwaitAny(c) ==
  /\ Running(c)
  /\ \/ pc[c] = "starting" /\ fr[c].kind = "any" /\ fr[c].it > fr[c].hi
     \/ /\ pc[c] = "limiting"
        /\ fr[c].it <= fr[c].hi \/ fr[c].aw # {}
        /\ Cardinality(fr[c].aw) >= fr[c].lim \/ fr[c].it > fr[c].hi
  /\ AnyAwait(c)
  /\ UNCHANGED <<started, finished, fr, fuel>>

\* Mutation of AnyResume: the tasks that still run keep their link.
AnyResume_KeepLinks(c) ==
  LET D == {t \in fr[c].aw : done(t)}
  IN  /\ Running(c) /\ pc[c] = "await_resume" /\ UsesAny(c)
      /\ \E ret \in IF D = {} THEN {Null} ELSE D :
           fr' = [fr EXCEPT ![c].aw = @ \ D, ![c].got = ret]
      /\ pc' = [pc EXCEPT ![c] = IF D = {} THEN "logic_error"
                                 ELSE IF fr[c].kind = "any" THEN "returning" ELSE "limiting"]
      /\ UNCHANGED <<started, awaiting, finished, stack, fuel>>

\* AnyAwaiter::await_resume: forget the tasks that are done, unlink the others.
\* any returns the first one that is done in the order of the unordered set.
AnyResume(c) ==
  LET D == {t \in fr[c].aw : done(t)}
  IN  /\ Running(c) /\ pc[c] = "await_resume" /\ UsesAny(c)
      /\ \E ret \in IF D = {} THEN {Null} ELSE D :
           fr' = [fr EXCEPT ![c].aw = @ \ D, ![c].got = ret]
      /\ awaiting' = [t \in Coro |-> IF t \in fr[c].aw \ D THEN Null ELSE awaiting[t]]
      /\ pc' = [pc EXCEPT ![c] = IF D = {} THEN "logic_error"
                                 ELSE IF fr[c].kind = "any" THEN "returning" ELSE "limiting"]
      /\ UNCHANGED <<started, finished, stack, fuel>>

\* Mutation of Return: all_limit returns when the last task is started.
Return_Early(c) ==
  /\ Running(c)
  /\ \/ pc[c] = "waiting" /\ fr[c].it \notin TaskRange(c)
     \/ pc[c] = "limiting" /\ fr[c].it > fr[c].hi
     \/ pc[c] = "returning"
  /\ pc' = [pc EXCEPT ![c] = "body"]
  /\ fr' = [fr EXCEPT ![c] = NoFrame]
  /\ UNCHANGED <<started, awaiting, finished, stack, fuel>>

\* The loop is over (any: await_resume gave a task), back to the caller; the
\* combinator's frame is destroyed.
Return(c) ==
  /\ Running(c)
  /\ \/ pc[c] = "waiting" /\ fr[c].it \notin TaskRange(c)
     \/ pc[c] = "limiting" /\ fr[c].it > fr[c].hi /\ fr[c].aw = {}
     \/ pc[c] = "returning"
  /\ pc' = [pc EXCEPT ![c] = "body"]
  /\ fr' = [fr EXCEPT ![c] = NoFrame]
  /\ UNCHANGED <<started, awaiting, finished, stack, fuel>>

Body(c) ==
  \/ Spawn(c)
  \/ Block(c)
  \/ Wake(c)
  \/ \E t \in Coro : Start(c, t)
  \/ Finish(c)
  \/ \E kind \in Kinds, r \in Ranges(c), lim \in Limits : Call(c, kind, r[1], r[2], lim)

Combinator(c) ==
  \/ StartNext(c)
  \/ StartDone(c)
  \/ AwaitTask(c)
  \/ WaitResume(c)
  \/ LimitStart(c)
  \/ AwaitAny(c)
  \/ AnyResume(c)
  \/ Return(c)

Next == \E c \in Coro : Body(c) \/ Combinator(c)

Spec == Init /\ [][Next]_vars

\* The running coroutine goes on until it suspends or finishes, and the event
\* loop runs as long as something can be resumed: what a blocked coroutine
\* waits for is assumed to happen.
FairSpec == Spec /\ WF_vars(Next)

-----------------------------------------------------------------------------
(* Properties *)

Pending(t) == started[t] /\ ~done(t)

\* The tasks that c's current co_await is about.
WaitSet(c) == IF UsesAny(c) THEN fr[c].aw ELSE {fr[c].it}

\* c is suspended in a co_await of tasks.
Suspended(c) == pc[c] = "await_resume" /\ c \notin Active

\* The types of the variables; the iterator of a combinator never leaves its
\* range by more than one (begin_it..end_it), and only tasks of the range get
\* into its AnyAwaiter.
TypeOK ==
  /\ started \in [Coro -> BOOLEAN]
  /\ awaiting \in [Coro -> Coro \cup {Null}]
  /\ finished \subseteq Coro
  /\ pc \in [Coro -> PCs]
  /\ stack \in Seq(Coro)
  /\ fr \in [Coro -> Frame]
  /\ fuel \in [Coro -> Nat]
  /\ \A c \in Coro : /\ fr[c].lo <= fr[c].hi + 1
                    /\ fr[c].it \in fr[c].lo - 1 .. fr[c].hi + 1
                    /\ fr[c].aw \subseteq TaskRange(c)
                    /\ \A t \in TaskRange(c) : Owner[t] = c

\* resume() is never called on a coroutine that is already running, nor on one
\* that has finished or was never started (all undefined behaviour): the
\* coroutines on the stack are distinct, started and not done.
NoReentry ==
  /\ \A i, j \in 1..Len(stack) : stack[i] = stack[j] => i = j
  /\ \A c \in Active : Pending(c) /\ pc[c] # "blocked"

\* The handle FinalAwaiter transfers to is good: a coroutine linked
\* (set_awaiting_coro) to a task that is not done is in a co_await of that very
\* task, and is suspended unless it is just about to run await_resume.  In
\* particular AnyAwaiter leaves no link behind in a task that is still running
\* when any or all_limit goes on.
LinkIntegrity ==
  \A t, c \in Coro : ~done(t) /\ awaiting[t] = c =>
    /\ pc[c] = "await_resume" /\ t \in WaitSet(c)
    /\ c \in Active => Running(c)

\* No wakeup is lost: a coroutine that is suspended in a co_await of tasks is
\* linked to every one of them and none of them is done, so the first one to
\* finish resumes it.
NoLostWakeup ==
  \A c \in Coro : Suspended(c) =>
    \A t \in WaitSet(c) : Pending(t) /\ awaiting[t] = c

\* Neither "all tasks must be started before using AnyAwaiter" nor "no task
\* resumed during AnyAwaiter suspend" is ever thrown by any or all_limit.
NoLogicError == \A c \in Coro : pc[c] # "logic_error"

InCall(c) == pc[c] \in {"starting", "waiting", "limiting", "await_resume", "returning"}

\* all_limit: of the tasks it starts itself, at most parallelism are running
\* at any time, whatever finishes, suspends or wakes what meanwhile.
LimitRespected ==
  \A c \in Coro : InCall(c) /\ fr[c].kind = "all_limit" =>
    Cardinality({t \in fr[c].fresh : Pending(t)}) <= fr[c].lim

\* Coroutine c waits, through tasks of tasks, for somebody that awaits an empty
\* AnyAwaiter: any() of no task, all_limit() with parallelism 0.
Owners[c \in Coro] == {c} \cup (IF Owner[c] \in Coro THEN Owners[Owner[c]] ELSE {})
HeldUp(c) == \E d \in Coro : Suspended(d) /\ WaitSet(d) = {} /\ c \in Owners[d]

\* What a combinator has established when it returns: await, multi, all and
\* all_limit return when every task of the range is done, any returns one
\* of the tasks of the range, which is done.
Returns(c) ==
  IF fr[c].kind = "any" THEN fr[c].got \in TaskRange(c) /\ done(fr[c].got)
                        ELSE \A t \in TaskRange(c) : done(t)
ReturnsWhenDone ==
  [][\A c \in Coro : InCall(c) /\ pc'[c] = "body" => Returns(c)]_vars

\* In the end no coroutine is in a co_await of a task or a combinator, save
\* those held up by any() of no task or all_limit() with parallelism 0.
CallsReturn == <>[](\A c \in Coro : InCall(c) => HeldUp(c))
=============================================================================
