----------------------------- MODULE Awaitables -----------------------------
(***************************************************************************)
(* Coroutines that use a Channel and a Future on one call stack.  write()  *)
(* and set_result() resume coroutines inside the call, those may call      *)
(* either of them in turn, and so on: resumptions of the two nest in each  *)
(* other.  The composition is Channel and an instance of Future that share *)
(* the stack and the places of the coroutines.                             *)
(***************************************************************************)
EXTENDS Channel

VARIABLES
  deferred, value,                   \* the future
  future_coros, future_insert_it,    \* its awaiting_coros and awaiting_coros_insert_it
  once,                              \* the callbacks of its resume_awaiters
  outcome, began, resumed            \* history, see Future

Fu == INSTANCE Future
  WITH awaiting_coros <- future_coros, insert_it <- future_insert_it

channel == <<queue, awaiting_coros, insert_it, aborted, sent, got, since, clock>>
future == <<deferred, value, future_coros, future_insert_it, once, outcome, began, resumed>>
allvars == <<channel, future, stack, pc>>

InitBoth == Init /\ Fu!Init

\* A step in the code of the channel, or outside of both.
ChannelStep(c) ==
  /\ \/ Resume(c)
     \/ Suspend(c)
     \/ read_ready(c)
     \/ read_suspend(c)
     \/ await_resume(c)
     \/ write(c)
  /\ UNCHANGED future

\* A step in the code of the future.
FutureStep(c) ==
  /\ \/ Fu!await_ready(c)
     \/ Fu!await_suspend(c)
     \/ Fu!await_resume(c)
     \/ \E v \in Fu!Outcomes : Fu!set(c, v)
     \/ Fu!resume_awaiter(c)
     \/ Fu!set_return(c)
     \/ Fu!schedule_awaiters(c)
  /\ ~aborted
  /\ UNCHANGED channel

\* The event loop runs a callback of the DeferredFuture.
CallbackStep(c) == ~aborted /\ Fu!resume_coro(c) /\ UNCHANGED channel

NextBoth == \E c \in Coro : ChannelStep(c) \/ FutureStep(c) \/ CallbackStep(c)

\* The running coroutine goes on until it suspends or ends, and the event loop
\* runs every callback that is due.
SpecBoth ==
  /\ InitBoth /\ [][NextBoth]_allvars
  /\ WF_allvars(NextBoth)
  /\ \A c \in Coro : SF_allvars(CallbackStep(c))

-----------------------------------------------------------------------------
(* Properties; the ones of Channel are inherited *)

\* Coroutines are resumed in the order they began to await the future, nobody
\* is forgotten or resumed twice, also when channel readers and writers run in
\* between (Future::resume_awaiters, await_suspend).
ResumedInOrder == Fu!ResumedInOrder

\* Every co_await of the future gives its outcome, or bad_variant_access after
\* an explicit call of DeferredFuture::resume_awaiters.
OutcomeOrBadAccess == Fu!OutcomeOrBadAccess

\* README: a DeferredFuture's awaiting coroutines are resumed "via callbacks on
\* a Base's event loop, instead of being resumed immediately during the
\* set_value/set_exception call".
ResumedByEventLoop == Fu!ResumedByEventLoop

\* Whoever waits for a Future that is done, or was handed to the event loop by
\* DeferredFuture::resume_awaiters, is resumed, also when the coroutines that
\* come first read and write channels.
AwaitersResume ==
  \A c \in Coro :
    pc[c] = "waiting" /\ ((~deferred /\ Fu!done) \/ c \in once) ~>
      pc[c] # "waiting" \/ aborted
=============================================================================
