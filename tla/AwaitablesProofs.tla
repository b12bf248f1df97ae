-------------------------- MODULE AwaitablesProofs --------------------------
(***************************************************************************)
(* For any number of coroutines that use a channel and a future on one     *)
(* stack, and any number of items: the safety properties of Channel and of *)
(* Future.                                                                 *)
(***************************************************************************)
EXTENDS Awaitables, TLAPS

-----------------------------------------------------------------------------
(* The inductive invariant *)

Places == {"idle", "code", "reading", "resumed", "waiting", "awaited", "resume_awaiters"}

\* The types of the variables.
Types ==
  /\ queue \in Seq(Nat) /\ got \in Seq(Nat) /\ sent \in Nat
  /\ awaiting_coros \in Seq(Coro) /\ since \in [Coro -> Nat] /\ clock \in Nat
  /\ stack \in Seq(Coro) /\ pc \in [Coro -> Places]
  /\ deferred \in BOOLEAN /\ future_coros \in Seq(Coro) /\ once \in SUBSET Coro
  /\ outcome \in [Coro -> {"none", "result", "exception", "bad_variant_access"}]
  /\ value \in {"monostate", "result", "exception"}
  /\ began \in Seq(Coro) /\ resumed \in Seq(Coro)

Distinct(s) == \A i, j \in 1..Len(s) : s[i] = s[j] => i = j

\* Where a coroutine can be that resumed another one.
Busy == {"code", "resume_awaiters"}

\* Every coroutine is on the stack once, and only the innermost one has just
\* been resumed.
StackOK ==
  /\ Distinct(stack)
  /\ \A i \in 1..Len(stack) : \/ pc[stack[i]] \in Busy
                              \/ i = 1 /\ pc[stack[i]] \in {"resumed", "awaited"}

\* The running coroutine is a reader that goes on to await_resume.
HeadResumed == stack # <<>> /\ pc[stack[1]] = "resumed"

\* The queue is empty while readers are linked, but for the item of the reader
\* that goes on.
Handed ==
  /\ HeadResumed => queue # <<>>
  /\ awaiting_coros # <<>> => Len(queue) = IF HeadResumed THEN 1 ELSE 0

Clocked == \A c \in Coro : since[c] <= clock

ChannelOK == FirstInFirstOut /\ Handed /\ LinkedUntilDrained /\ Clocked

\* Who is in the future's list, or in a callback, waits for it, and once.
Waiters ==
  /\ Distinct(future_coros)
  /\ \A i \in 1..Len(future_coros) : pc[future_coros[i]] = "waiting" /\ future_coros[i] \notin once
  /\ \A c \in once : pc[c] = "waiting"

\* The future's iterator cannot be used while await_suspend is possible, except
\* after resume_awaiters of a DeferredFuture; who was resumed finds an outcome.
Early == deferred /\ future_insert_it = "dangling"

Resolved ==
  /\ future_insert_it \notin {"before_begin", "back"} => value # "monostate" \/ Early
  /\ once # {} => Early
  /\ \A c \in Coro : /\ pc[c] = "resume_awaiters" => value # "monostate"
                     /\ pc[c] = "awaited" => value # "monostate" \/ Early

\* What was resumed, then the list, are the coroutines as they began to wait.
Ordered ==
  ~deferred =>
    /\ Len(began) = Len(resumed) + Len(future_coros)
    /\ \A i \in 1..Len(resumed) : began[i] = resumed[i]
    /\ \A i \in 1..Len(future_coros) : began[Len(resumed) + i] = future_coros[i]

\* What a co_await gave.
Outcome ==
  \A c \in Coro : outcome[c] # "none" =>
    \/ value # "monostate" /\ outcome[c] = value
    \/ Early /\ outcome[c] = "bad_variant_access"

FutureOK == Waiters /\ Resolved /\ Ordered /\ Outcome

AInv == Types /\ StackOK /\ ChannelOK /\ FutureOK

-----------------------------------------------------------------------------
(* Sequences *)

\* What a list is after pop_front: the others, in their order.
LEMMA TailFacts ==
  ASSUME NEW S, NEW s \in Seq(S), s # <<>>
  PROVE  /\ Len(s) \in Nat /\ Len(s) >= 1 /\ Head(s) = s[1] /\ s[1] \in S
         /\ Tail(s) \in Seq(S) /\ Len(Tail(s)) = Len(s) - 1
         /\ \A i \in 1..Len(s) - 1 : Tail(s)[i] = s[i + 1]
         /\ \A i \in 1..Len(s) : i = 1 \/ (i - 1 \in 1..Len(Tail(s)) /\ s[i] = Tail(s)[i - 1])
  OBVIOUS

\* What a list is after an item was added behind the last one.
LEMMA AppendFacts ==
  ASSUME NEW S, NEW s \in Seq(S), NEW x \in S
  PROVE  /\ Append(s, x) \in Seq(S) /\ Len(Append(s, x)) = Len(s) + 1 /\ Len(s) \in Nat
         /\ \A i \in 1..Len(s) : Append(s, x)[i] = s[i]
         /\ Append(s, x)[Len(s) + 1] = x
  OBVIOUS

\* What the stack is after a coroutine was resumed on top of it.
LEMMA PushFacts ==
  ASSUME NEW S, NEW s \in Seq(S), NEW x \in S
  PROVE  /\ <<x>> \o s \in Seq(S) /\ Len(<<x>> \o s) = Len(s) + 1 /\ Len(s) \in Nat
         /\ (<<x>> \o s)[1] = x /\ <<x>> \o s # <<>>
         /\ \A i \in 1..Len(s) + 1 : (<<x>> \o s)[i] = IF i = 1 THEN x ELSE s[i - 1]
<1>1. <<x>> \o s \in Seq(S) /\ Len(<<x>> \o s) = Len(s) + 1 /\ Len(s) \in Nat
  OBVIOUS
<1>2. \A i \in 1..Len(s) + 1 : (<<x>> \o s)[i] = IF i = 1 THEN x ELSE s[i - 1]
  BY <1>1
<1> QED BY <1>1, <1>2

-----------------------------------------------------------------------------
(* The stack: the four ways in which it changes *)

\* The running coroutine goes on at another place.
LEMMA StayStack ==
  ASSUME Types, StackOK, NEW c \in Coro, stack # <<>>, stack[1] = c,
         NEW p \in {"code", "resume_awaiters", "resumed", "awaited"},
         stack' = stack, pc' = [pc EXCEPT ![c] = p]
  PROVE  StackOK' /\ pc' \in [Coro -> Places] /\ (HeadResumed' <=> p = "resumed")
<1>1. Len(stack) \in Nat /\ Len(stack) >= 1 /\ \A i \in 1..Len(stack) : stack[i] \in Coro
  BY SMTT(60) DEF Types
<1>2. \A i \in 1..Len(stack) : i # 1 => stack[i] # c
  BY <1>1 DEF StackOK, Distinct
<1>3. pc' \in [Coro -> Places] /\ pc'[c] = p /\ \A d \in Coro : d # c => pc'[d] = pc[d]
  BY Zenon DEF Types, Places
<1>4. \A i \in 1..Len(stack) : pc'[stack[i]] \in Busy \/ (i = 1 /\ pc'[stack[i]] \in {"resumed", "awaited"})
  BY <1>1, <1>2, <1>3, Zenon DEF StackOK, Busy
<1> QED BY <1>3, <1>4, ZenonT(60) DEF StackOK, Distinct, HeadResumed

\* The running coroutine leaves the stack.
LEMMA PopStack ==
  ASSUME Types, StackOK, NEW c \in Coro, stack # <<>>, stack[1] = c,
         NEW p \in {"idle", "reading", "waiting"},
         stack' = Tail(stack), pc' = [pc EXCEPT ![c] = p]
  PROVE  StackOK' /\ stack' \in Seq(Coro) /\ pc' \in [Coro -> Places] /\ ~HeadResumed'
<1>1. stack \in Seq(Coro)
  BY Zenon DEF Types
<1>2. /\ Len(stack) \in Nat /\ stack' \in Seq(Coro) /\ Len(stack') = Len(stack) - 1
      /\ \A i \in 1..Len(stack) - 1 : stack'[i] = stack[i + 1]
  BY <1>1, TailFacts, Zenon
<1>3. \A i \in 1..Len(stack') : stack'[i] = stack[i + 1] /\ i + 1 \in 1..Len(stack) /\ i + 1 # 1
  BY <1>2
<1>4. 1 \in 1..Len(stack)
  BY <1>1
<1>5. \A i \in 1..Len(stack') : stack'[i] \in Coro /\ stack'[i] # c
  BY <1>1, <1>3, <1>4 DEF StackOK, Distinct
<1>6. pc' \in [Coro -> Places] /\ \A d \in Coro : d # c => pc'[d] = pc[d]
  BY Zenon DEF Types, Places
<1>7. \A i \in 1..Len(stack') : pc'[stack'[i]] \in Busy
  BY <1>3, <1>5, <1>6 DEF StackOK
<1>8. Distinct(stack)'
  BY <1>2, <1>3 DEF StackOK, Distinct
<1>9. stack' # <<>> => 1 \in 1..Len(stack')
  BY <1>2
<1> QED BY <1>2, <1>6, <1>7, <1>8, <1>9, Zenon DEF StackOK, HeadResumed, Busy

\* A coroutine that waits is resumed on top of the running one.
LEMMA PushStack ==
  ASSUME Types, StackOK, NEW d \in Coro, pc[d] \in {"reading", "waiting"},
         stack # <<>>, pc[stack[1]] \in Busy,
         NEW p \in {"resumed", "awaited"},
         stack' = <<d>> \o stack, pc' = [pc EXCEPT ![d] = p]
  PROVE  StackOK' /\ stack' \in Seq(Coro) /\ pc' \in [Coro -> Places] /\ (HeadResumed' <=> p = "resumed")
<1>1. stack \in Seq(Coro)
  BY Zenon DEF Types
<1>2. /\ stack' \in Seq(Coro) /\ Len(stack') = Len(stack) + 1 /\ Len(stack) \in Nat
      /\ stack'[1] = d /\ stack' # <<>>
      /\ \A i \in 1..Len(stack) + 1 : stack'[i] = IF i = 1 THEN d ELSE stack[i - 1]
  BY <1>1, PushFacts
<1>3. \A i \in 1..Len(stack) : stack[i] \in Coro /\ stack[i] # d /\ pc[stack[i]] \in Busy
  BY <1>1 DEF StackOK, Busy
<1>4. pc' \in [Coro -> Places] /\ pc'[d] = p /\ \A e \in Coro : e # d => pc'[e] = pc[e]
  BY Zenon DEF Types, Places
<1>5. \A i \in 1..Len(stack') : i = 1 \/ (i - 1 \in 1..Len(stack) /\ stack'[i] = stack[i - 1])
  BY <1>2
<1>6. \A i \in 1..Len(stack') : pc'[stack'[i]] \in Busy \/ (i = 1 /\ pc'[stack'[i]] \in {"resumed", "awaited"})
  BY <1>2, <1>3, <1>4, <1>5
<1>7. Distinct(stack)'
  BY <1>2, <1>3, <1>5, SMTT(60) DEF StackOK, Distinct
<1> QED BY <1>2, <1>4, <1>6, <1>7, Zenon DEF StackOK, HeadResumed

\* The event loop resumes a coroutine.
LEMMA EnterStack ==
  ASSUME Types, stack = <<>>, NEW c \in Coro, NEW p \in {"code", "awaited"},
         stack' = <<c>>, pc' = [pc EXCEPT ![c] = p]
  PROVE  StackOK' /\ stack' \in Seq(Coro) /\ pc' \in [Coro -> Places] /\ ~HeadResumed'
<1>1. stack' \in Seq(Coro) /\ Len(stack') = 1 /\ stack'[1] = c
  OBVIOUS
<1>2. pc' \in [Coro -> Places] /\ pc'[c] = p
  BY Zenon DEF Types, Places
<1> QED BY <1>1, <1>2 DEF StackOK, Distinct, HeadResumed, Busy

-----------------------------------------------------------------------------
(* Each half leaves the other one alone *)

\* Linked readers are suspended.
LEMMA LinkedFacts ==
  ASSUME Types, LinkedUntilDrained
  PROVE  \A i \in 1..Len(awaiting_coros) : awaiting_coros[i] \in Coro /\ pc[awaiting_coros[i]] = "reading"
<1>1. \A i \in 1..Len(awaiting_coros) : awaiting_coros[i] \in Linked
  BY Zenon DEF Linked
<1>2. \A i \in 1..Len(awaiting_coros) : awaiting_coros[i] \in Coro
  BY DEF Types
<1> QED BY <1>1, <1>2, Zenon DEF LinkedUntilDrained

\* The list stays in order as long as it and its readers stay.
LEMMA LinkedKept ==
  ASSUME Types, LinkedUntilDrained, UNCHANGED <<awaiting_coros, insert_it, since>>,
         \A d \in Coro : pc[d] = "reading" <=> pc'[d] = "reading"
  PROVE  LinkedUntilDrained'
<1>1. awaiting_coros' = awaiting_coros /\ insert_it' = insert_it /\ since' = since
  BY Zenon
<1>2. Linked' = Linked
  BY <1>1, Zenon DEF Linked
<1>3. Linked \subseteq Coro
  BY DEF Linked, Types
<1> QED BY <1>1, <1>2, <1>3, Zenon DEF LinkedUntilDrained

\* A step in the future's code: readers stay where they are.
LEMMA ChannelKept ==
  ASSUME Types, ChannelOK, UNCHANGED channel, ~HeadResumed, ~HeadResumed',
         pc' \in [Coro -> Places],
         \A d \in Coro : pc[d] = "reading" <=> pc'[d] = "reading"
  PROVE  ChannelOK'
<1>1. UNCHANGED <<queue, awaiting_coros, insert_it, sent, got, since, clock>>
  BY Zenon DEF channel
<1>2. FirstInFirstOut' /\ Clocked'
  BY <1>1, Zenon DEF ChannelOK, FirstInFirstOut, Clocked
<1>3. Handed'
  BY <1>1, Zenon DEF ChannelOK, Handed
<1>4. LinkedUntilDrained'
  BY <1>1, LinkedKept, Zenon DEF ChannelOK
<1> QED BY <1>2, <1>3, <1>4, Zenon DEF ChannelOK

\* A step in the channel's code: who waits for the future goes on to.
LEMMA FutureKept ==
  ASSUME Types, FutureOK, UNCHANGED future, NEW d \in Coro, pc[d] # "waiting",
         NEW p \in {"idle", "code", "reading", "resumed"}, pc' = [pc EXCEPT ![d] = p]
  PROVE  FutureOK'
<1>1. UNCHANGED <<deferred, value, future_coros, future_insert_it, once, outcome, began, resumed>>
  BY Zenon DEF future
<1>2. pc'[d] = p /\ \A e \in Coro : e # d => pc'[e] = pc[e]
  BY Zenon DEF Types
<1>3. Waiters'
  BY <1>1, <1>2, SMTT(60) DEF FutureOK, Waiters, Types, Distinct
<1>4. Resolved'
  BY <1>1, <1>2, Zenon DEF FutureOK, Resolved, Early
<1>5. Ordered' /\ Outcome'
  BY <1>1, Zenon DEF FutureOK, Ordered, Outcome, Early
<1> QED BY <1>3, <1>4, <1>5, Zenon DEF FutureOK

-----------------------------------------------------------------------------
(* The steps of the channel *)

\* The running coroutine is the first one of the stack.
LEMMA RunningFacts ==
  ASSUME Types, NEW c \in Coro, stack # <<>>, Head(stack) = c
  PROVE  stack[1] = c /\ 1 \in 1..Len(stack)
  BY TailFacts DEF Types

\* The event loop resumes a coroutine; or the running one suspends.
LEMMA OutsideStep ==
  ASSUME AInv, NEW c \in Coro, Resume(c) \/ Suspend(c), UNCHANGED future PROVE AInv'
<1> USE DEF AInv
<1>1. /\ StackOK' /\ stack' \in Seq(Coro) /\ pc' \in [Coro -> Places] /\ ~HeadResumed'
      /\ ~HeadResumed /\ pc[c] \in {"idle", "code"} /\ UNCHANGED channel
      /\ \E p \in {"idle", "code"} : pc' = [pc EXCEPT ![c] = p]
  <2>1. CASE Resume(c)
    BY <2>1, EnterStack, Zenon DEF Resume, HeadResumed, channel
  <2>2. CASE Suspend(c)
    <3>1. stack # <<>> /\ stack[1] = c /\ pc[c] = "code" /\ stack' = Tail(stack) /\ pc' = [pc EXCEPT ![c] = "idle"]
      BY <2>2, RunningFacts, Zenon DEF Suspend, Running
    <3>2. UNCHANGED channel /\ ~HeadResumed
      BY <2>2, <3>1, Zenon DEF Suspend, HeadResumed, channel
    <3> QED BY <3>1, <3>2, PopStack, Zenon
  <2> QED BY <2>1, <2>2, Zenon
<1>2. \A d \in Coro : pc[d] = "reading" <=> pc'[d] = "reading"
  BY <1>1, Zenon DEF Types
<1>3. ChannelOK'
  BY <1>1, <1>2, ChannelKept, Zenon
<1>4. FutureOK'
  BY <1>1, FutureKept, Zenon
<1>5. Types'
  BY <1>1, Zenon DEF Types, channel, future
<1> QED BY <1>1, <1>3, <1>4, <1>5, Zenon

\* await_ready finds an item, so no reader is linked.
LEMMA ReadReadyStep ==
  ASSUME AInv, NEW c \in Coro, read_ready(c), UNCHANGED future PROVE AInv'
<1> USE DEF AInv
<1>1. /\ stack # <<>> /\ stack[1] = c /\ pc[c] = "code" /\ queue # <<>>
      /\ stack' = stack /\ pc' = [pc EXCEPT ![c] = "resumed"]
      /\ UNCHANGED <<queue, awaiting_coros, insert_it, sent, got, since, clock>>
  BY RunningFacts, Zenon DEF read_ready, Running
<1>2. StackOK' /\ pc' \in [Coro -> Places] /\ HeadResumed' /\ ~HeadResumed
  BY <1>1, StayStack, Zenon DEF HeadResumed
<1>3. awaiting_coros = <<>>
  <2>1. Len(queue) # 0
    BY <1>1 DEF Types
  <2> QED BY <1>2, <2>1, Zenon DEF ChannelOK, Handed
<1>4. \A d \in Coro : pc[d] = "reading" <=> pc'[d] = "reading"
  BY <1>1, Zenon DEF Types
<1>5. Handed'
  BY <1>1, <1>3, Zenon DEF Handed
<1>6. FirstInFirstOut' /\ Clocked'
  BY <1>1, Zenon DEF ChannelOK, FirstInFirstOut, Clocked
<1>7. LinkedUntilDrained'
  BY <1>1, <1>4, LinkedKept, Zenon DEF ChannelOK
<1>8. FutureOK'
  BY <1>1, FutureKept, Zenon
<1>9. Types'
  BY <1>1, <1>2, Zenon DEF Types, future
<1> QED BY <1>2, <1>5, <1>6, <1>7, <1>8, <1>9, Zenon DEF ChannelOK

\* await_resume takes the front item, which is there.
LEMMA ReadResumeStep ==
  ASSUME AInv, NEW c \in Coro, await_resume(c), UNCHANGED future PROVE AInv'
<1> USE DEF AInv
<1>1. /\ stack # <<>> /\ stack[1] = c /\ pc[c] = "resumed" /\ HeadResumed
      /\ stack' = stack /\ pc' = [pc EXCEPT ![c] = "code"]
      /\ UNCHANGED <<awaiting_coros, insert_it, sent, since, clock>>
  BY RunningFacts, Zenon DEF await_resume, Running, HeadResumed
<1>2. StackOK' /\ pc' \in [Coro -> Places] /\ ~HeadResumed'
  BY <1>1, StayStack, Zenon
<1>3. queue # <<>>
  BY <1>1, Zenon DEF ChannelOK, Handed
<1>4. got' = Append(got, queue[1]) /\ queue' = Tail(queue)
  BY <1>3, Zenon DEF await_resume
<1>5. queue \in Seq(Nat) /\ got \in Seq(Nat) /\ sent \in Nat
  BY Zenon DEF Types
<1>6. /\ Len(queue) \in Nat /\ Len(queue) >= 1 /\ queue[1] \in Nat
      /\ queue' \in Seq(Nat) /\ Len(queue') = Len(queue) - 1
      /\ \A i \in 1..Len(queue) - 1 : queue'[i] = queue[i + 1]
  BY <1>3, <1>4, <1>5, TailFacts, Zenon
<1>7. /\ got' \in Seq(Nat) /\ Len(got') = Len(got) + 1 /\ Len(got) \in Nat
      /\ \A i \in 1..Len(got) : got'[i] = got[i]
      /\ got'[Len(got) + 1] = queue[1]
  BY <1>4, <1>5, <1>6, AppendFacts
<1>8. FirstInFirstOut'
  <2>1. /\ Len(got) + Len(queue) = sent /\ \A i \in 1..Len(got) : got[i] = i
        /\ \A i \in 1..Len(queue) : queue[i] = Len(got) + i
    BY Zenon DEF ChannelOK, FirstInFirstOut
  <2>2. \A i \in 1..Len(got') : got'[i] = i
    <3>1. 1 \in 1..Len(queue) /\ queue[1] = Len(got) + 1
      BY <1>6, <2>1
    <3>2. \A i \in 1..Len(got') : i \in 1..Len(got) \/ i = Len(got) + 1
      BY <1>7
    <3> QED BY <1>7, <2>1, <3>1, <3>2, Zenon
  <2>3. \A i \in 1..Len(queue') : queue'[i] = Len(got') + i
    BY <1>6, <1>7, <2>1
  <2> QED BY <1>1, <1>6, <1>7, <2>1, <2>2, <2>3 DEF FirstInFirstOut
<1>9. Handed'
  BY <1>1, <1>2, <1>6 DEF ChannelOK, Handed
<1>10. \A d \in Coro : pc[d] = "reading" <=> pc'[d] = "reading"
  BY <1>1, Zenon DEF Types
<1>11. LinkedUntilDrained' /\ Clocked'
  BY <1>1, <1>10, LinkedKept, Zenon DEF ChannelOK, Clocked
<1>12. FutureOK'
  BY <1>1, FutureKept, Zenon
<1>13. Types'
  BY <1>1, <1>2, <1>6, <1>7, Zenon DEF Types, future
<1> QED BY <1>2, <1>8, <1>9, <1>11, <1>12, <1>13, Zenon DEF ChannelOK

\* await_suspend links the reader behind the others, unless the iterator
\* dangles.
LEMMA ReadSuspendStep ==
  ASSUME AInv, NEW c \in Coro, read_suspend(c), UNCHANGED future PROVE AInv'
<1> USE DEF AInv
<1>1. /\ stack # <<>> /\ stack[1] = c /\ pc[c] = "code" /\ queue = <<>> /\ emplace_after(c)
      /\ stack' = Tail(stack) /\ pc' = [pc EXCEPT ![c] = "reading"]
      /\ clock' = clock + 1 /\ since' = [since EXCEPT ![c] = clock + 1]
      /\ UNCHANGED <<queue, sent, got>>
  BY RunningFacts, Zenon DEF read_suspend, Running
<1>2. StackOK' /\ stack' \in Seq(Coro) /\ pc' \in [Coro -> Places] /\ ~HeadResumed'
  BY <1>1, PopStack, Zenon
<1>3. FirstInFirstOut' /\ Handed'
  BY <1>1, <1>2, Zenon DEF ChannelOK, FirstInFirstOut, Handed
<1>4. /\ clock \in Nat /\ clock' \in Nat /\ since' \in [Coro -> Nat] /\ since'[c] = clock + 1
      /\ \A d \in Coro : d # c => since'[d] = since[d]
      /\ pc'[c] = "reading" /\ \A d \in Coro : d # c => pc'[d] = pc[d]
  BY <1>1 DEF Types
<1>5. Clocked'
  BY <1>1, <1>4, SMTT(60) DEF ChannelOK, Clocked, Types
<1>6. \A i \in 1..Len(awaiting_coros) : awaiting_coros[i] \in Coro /\ awaiting_coros[i] # c
  BY <1>1, LinkedFacts, Zenon DEF ChannelOK
<1>7. awaiting_coros' \in Seq(Coro) /\ LinkedUntilDrained'
  <2>1. CASE insert_it = "dangling"
    <3>1. UNCHANGED <<awaiting_coros, insert_it>>
      BY <1>1, <2>1, Zenon DEF emplace_after
    <3>2. \A i \in 1..Len(awaiting_coros) : since'[awaiting_coros[i]] = since[awaiting_coros[i]]
                                            /\ pc'[awaiting_coros[i]] = pc[awaiting_coros[i]]
      BY <1>4, <1>6, Zenon
    <3>3. LinkedUntilDrained /\ awaiting_coros \in Seq(Coro)
      BY Zenon DEF ChannelOK, Types
    <3>4. \A i, j \in 1..Len(awaiting_coros) : i < j => since'[awaiting_coros[i]] < since'[awaiting_coros[j]]
      BY <3>2, <3>3, Zenon DEF LinkedUntilDrained
    <3>5. \A d \in Linked' : pc'[d] = "reading"
      BY <3>1, <3>2, LinkedFacts, Zenon DEF Linked, ChannelOK
    <3> QED BY <2>1, <3>1, <3>3, <3>4, <3>5, Zenon DEF LinkedUntilDrained
  <2>2. CASE insert_it # "dangling"
    <3>1. awaiting_coros' = Append(awaiting_coros, c)
      BY <1>1, <2>2, Zenon DEF emplace_after
    <3>2. /\ awaiting_coros \in Seq(Coro) /\ awaiting_coros' \in Seq(Coro)
          /\ Len(awaiting_coros') = Len(awaiting_coros) + 1 /\ Len(awaiting_coros) \in Nat
          /\ \A i \in 1..Len(awaiting_coros) : awaiting_coros'[i] = awaiting_coros[i]
          /\ awaiting_coros'[Len(awaiting_coros) + 1] = c
      BY <3>1, AppendFacts DEF Types
    <3>3. ASSUME NEW i \in 1..Len(awaiting_coros'), NEW j \in 1..Len(awaiting_coros'), i < j
          PROVE  since'[awaiting_coros'[i]] < since'[awaiting_coros'[j]]
      <4>1. /\ i \in 1..Len(awaiting_coros) /\ awaiting_coros'[i] = awaiting_coros[i]
            /\ since'[awaiting_coros[i]] = since[awaiting_coros[i]] /\ since[awaiting_coros[i]] \in Nat
            /\ since[awaiting_coros[i]] <= clock
        <5>1. i \in 1..Len(awaiting_coros)
          BY <3>2, <3>3
        <5>2. awaiting_coros[i] \in Coro /\ awaiting_coros[i] # c
          BY <5>1, <1>6, Zenon
        <5>3. since \in [Coro -> Nat] /\ Clocked
          BY Zenon DEF ChannelOK, Types
        <5> QED BY <5>1, <5>2, <5>3, <3>2, <1>4, Zenon DEF Clocked
      <4>2. CASE j = Len(awaiting_coros) + 1
        BY <4>1, <4>2, <3>2, <1>4, SMTT(60)
      <4>3. CASE j \in 1..Len(awaiting_coros)
        <5>1. since[awaiting_coros[i]] < since[awaiting_coros[j]]
          BY <4>1, <4>3, <3>3, Zenon DEF ChannelOK, LinkedUntilDrained
        <5> QED BY <4>1, <4>3, <5>1, <3>2, <1>4, <1>6, Zenon
      <4> QED BY <3>2, <4>2, <4>3
    <3>4. \A d \in Coro : d \in Linked' <=> d \in Linked \/ d = c
      <4>1. ASSUME NEW d \in Linked' PROVE d \in Linked \/ d = c
        <5>1. PICK i \in 1..Len(awaiting_coros') : d = awaiting_coros'[i]
          BY <4>1, Zenon DEF Linked
        <5> QED BY <5>1, <3>2 DEF Linked
      <4>2. Linked \subseteq Linked'
        BY <3>2 DEF Linked
      <4>3. c \in Linked'
        <5>1. Len(awaiting_coros) + 1 \in 1..Len(awaiting_coros')
          BY <3>2
        <5> QED BY <5>1, <3>2, Zenon DEF Linked
      <4> QED BY <4>1, <4>2, <4>3, Zenon
    <3>5. Linked' \subseteq Coro
      BY <3>2 DEF Linked
    <3>6. \A d \in Linked : d \in Coro /\ pc[d] = "reading"
      BY <3>2 DEF ChannelOK, LinkedUntilDrained, Linked
    <3>7. \A d \in Coro : pc[d] = "reading" => d \in Linked
      BY <2>2, Zenon DEF ChannelOK, LinkedUntilDrained
    <3>8. (\A d \in Linked' : pc'[d] = "reading") /\ (\A d \in Coro : pc'[d] = "reading" => d \in Linked')
      BY <1>4, <3>4, <3>5, <3>6, <3>7, Zenon
    <3> QED BY <3>2, <3>3, <3>8, Zenon DEF LinkedUntilDrained
  <2> QED BY <2>1, <2>2, Zenon
<1>8. FutureOK'
  BY <1>1, FutureKept, Zenon
<1>9. Types'
  BY <1>1, <1>2, <1>4, <1>7, Zenon DEF Types, future
<1> QED BY <1>2, <1>3, <1>5, <1>7, <1>8, <1>9, Zenon DEF ChannelOK

\* write() adds an item behind the others.
LEMMA Written ==
  ASSUME AInv, NEW c \in Coro, write(c)
  PROVE  /\ queue' \in Seq(Nat) /\ queue' # <<>> /\ Len(queue') = Len(queue) + 1 /\ Len(queue) \in Nat
         /\ sent' \in Nat /\ FirstInFirstOut'
<1>1. queue \in Seq(Nat) /\ sent \in Nat /\ got \in Seq(Nat) /\ FirstInFirstOut
  BY Zenon DEF AInv, Types, ChannelOK
<1>2. sent' = sent + 1 /\ sent' \in Nat /\ queue' = Append(queue, sent') /\ got' = got
  BY <1>1 DEF write
<1>3. /\ queue' \in Seq(Nat) /\ Len(queue') = Len(queue) + 1 /\ Len(queue) \in Nat
      /\ \A i \in 1..Len(queue) : queue'[i] = queue[i]
      /\ queue'[Len(queue) + 1] = sent'
  BY <1>1, <1>2, AppendFacts
<1>4. Len(got) + Len(queue) = sent /\ Len(got) \in Nat
  BY <1>1 DEF FirstInFirstOut
<1>5. \A i \in 1..Len(queue') : queue'[i] = Len(got) + i
  <2>1. \A i \in 1..Len(queue') : i \in 1..Len(queue) \/ i = Len(queue) + 1
    BY <1>3
  <2>2. \A i \in 1..Len(queue) : queue[i] = Len(got) + i
    BY <1>1, Zenon DEF FirstInFirstOut
  <2> QED BY <1>2, <1>3, <1>4, <2>1, <2>2, SMTT(60)
<1>6. FirstInFirstOut'
  BY <1>1, <1>2, <1>3, <1>4, <1>5 DEF FirstInFirstOut
<1>7. queue' # <<>>
  BY <1>3
<1> QED BY <1>2, <1>3, <1>6, <1>7, Zenon

\* write() when nobody is linked.
LEMMA WriteStep ==
  ASSUME AInv, NEW c \in Coro, write(c), awaiting_coros = <<>>, UNCHANGED future PROVE AInv'
<1> USE DEF AInv
<1>1. UNCHANGED <<awaiting_coros, insert_it, stack, pc, since, got, clock>>
  BY Zenon DEF write, resume_awaiter
<1>2. StackOK' /\ Clocked'
  BY <1>1, Zenon DEF StackOK, Distinct, ChannelOK, Clocked
<1>3. FirstInFirstOut' /\ Handed'
  BY <1>1, Written, Zenon DEF Handed
<1>4. LinkedUntilDrained'
  BY <1>1, LinkedKept, Zenon DEF ChannelOK
<1>5. FutureOK'
  <2>1. pc[c] = "code" /\ pc' = [pc EXCEPT ![c] = "code"]
    BY <1>1, Zenon DEF write, Types
  <2> QED BY <2>1, FutureKept, Zenon
<1>6. Types'
  BY <1>1, Written, Zenon DEF Types, future
<1> QED BY <1>2, <1>3, <1>4, <1>5, <1>6, Zenon DEF ChannelOK

\* write() when a reader is linked: the first one is resumed and finds the
\* item, which is the only one.
LEMMA WriteWakesStep ==
  ASSUME AInv, NEW c \in Coro, write(c), awaiting_coros # <<>>, UNCHANGED future PROVE AInv'
<1> DEFINE d == awaiting_coros[1]
<1>1. AInv /\ Types /\ StackOK /\ ChannelOK /\ FutureOK /\ LinkedUntilDrained /\ Clocked
  BY Zenon DEF AInv, ChannelOK
<1>2. awaiting_coros \in Seq(Coro)
  BY <1>1, Zenon DEF Types
<1>3. /\ Len(awaiting_coros) \in Nat /\ Len(awaiting_coros) >= 1 /\ Head(awaiting_coros) = d /\ d \in Coro
      /\ Tail(awaiting_coros) \in Seq(Coro) /\ Len(Tail(awaiting_coros)) = Len(awaiting_coros) - 1
      /\ \A i \in 1..Len(awaiting_coros) - 1 : Tail(awaiting_coros)[i] = awaiting_coros[i + 1]
  BY <1>2, TailFacts, Zenon
<1>4. /\ stack # <<>> /\ stack[1] = c /\ pc[c] = "code"
      /\ awaiting_coros' = Tail(awaiting_coros)
      /\ insert_it' = IF Len(awaiting_coros) = 1 THEN "dangling" ELSE insert_it
      /\ stack' = <<d>> \o stack /\ pc' = [pc EXCEPT ![d] = "resumed"]
      /\ since' = [since EXCEPT ![d] = 0] /\ UNCHANGED <<got, clock>>
  BY <1>1, <1>3, RunningFacts, Zenon DEF write, resume_awaiter, Running
<1>5. pc[d] = "reading"
  BY <1>1, <1>3, LinkedFacts
<1>6. StackOK' /\ stack' \in Seq(Coro) /\ pc' \in [Coro -> Places] /\ HeadResumed'
  BY <1>1, <1>3, <1>4, <1>5, PushStack, Zenon DEF Busy
<1>7. Handed'
  <2>1. Len(queue) = 0
    BY <1>1, <1>4, Zenon DEF ChannelOK, Handed, HeadResumed
  <2> QED BY <1>1, <1>6, <2>1, Written DEF Handed
<1>8. /\ since' \in [Coro -> Nat] /\ since'[d] = 0 /\ \A e \in Coro : e # d => since'[e] = since[e]
      /\ pc'[d] = "resumed" /\ \A e \in Coro : e # d => pc'[e] = pc[e]
  BY <1>1, <1>3, <1>4, Zenon DEF Types
<1>9. Clocked'
  <2>1. clock \in Nat
    BY <1>1, Zenon DEF Types
  <2> QED BY <1>1, <1>4, <1>8, <2>1 DEF Clocked
<1>10. \A i \in 1..Len(awaiting_coros') :
         /\ awaiting_coros'[i] = awaiting_coros[i + 1]
         /\ i + 1 \in 1..Len(awaiting_coros) /\ 1 \in 1..Len(awaiting_coros) /\ 1 < i + 1
  BY <1>3, <1>4
<1>11. since \in [Coro -> Nat] /\ \A i \in 1..Len(awaiting_coros) : awaiting_coros[i] \in Coro
  BY <1>1, LinkedFacts, Zenon DEF Types
<1>12. \A i \in 1..Len(awaiting_coros') :
         /\ awaiting_coros[i + 1] \in Coro /\ awaiting_coros[i + 1] # d
  <2>1. \A i \in 1..Len(awaiting_coros') : since[d] < since[awaiting_coros[i + 1]]
    BY <1>1, <1>10, Zenon DEF LinkedUntilDrained
  <2> QED BY <1>3, <1>10, <1>11, <2>1
<1>13. LinkedUntilDrained'
  <2>1. ASSUME NEW i \in 1..Len(awaiting_coros'), NEW j \in 1..Len(awaiting_coros'), i < j
        PROVE  since'[awaiting_coros'[i]] < since'[awaiting_coros'[j]]
    <3>1. i + 1 < j + 1
      BY <2>1, <1>3, <1>4
    <3>2. since[awaiting_coros[i + 1]] < since[awaiting_coros[j + 1]]
      BY <3>1, <1>1, <1>10, Zenon DEF LinkedUntilDrained
    <3> QED BY <3>2, <1>8, <1>10, <1>12, Zenon
  <2>2. \A e \in Linked' : pc'[e] = "reading"
    <3>1. \A i \in 1..Len(awaiting_coros') : pc'[awaiting_coros'[i]] = "reading"
      BY <1>1, <1>8, <1>10, <1>12, LinkedFacts
    <3> QED BY <3>1, Zenon DEF Linked
  <2>3. ASSUME insert_it' # "dangling", NEW e \in Coro, pc'[e] = "reading" PROVE e \in Linked'
    <3>1. e # d /\ pc[e] = "reading" /\ insert_it # "dangling"
      BY <2>3, <1>4, <1>8, Zenon
    <3>2. e \in Linked
      BY <3>1, <1>1, Zenon DEF LinkedUntilDrained
    <3>3. PICK i \in 1..Len(awaiting_coros) : e = awaiting_coros[i]
      BY <3>2, Zenon DEF Linked
    <3>4. i # 1
      BY <3>1, <3>3, Zenon
    <3>5. i - 1 \in 1..Len(awaiting_coros') /\ awaiting_coros'[i - 1] = e
      BY <3>3, <3>4, <1>3, <1>4
    <3> QED BY <3>5, Zenon DEF Linked
  <2> QED BY <2>1, <2>2, <2>3, Zenon DEF LinkedUntilDrained
<1>14. FutureOK'
  BY <1>1, <1>3, <1>4, <1>5, FutureKept, Zenon
<1>15. Types'
  BY <1>1, <1>3, <1>4, <1>6, <1>8, Written, Zenon DEF Types, future
<1> QED BY <1>1, <1>6, <1>7, <1>9, <1>13, <1>14, <1>15, Written, Zenon DEF AInv, ChannelOK

\* Every step of the channel keeps the invariant.
LEMMA ChannelSteps ==
  ASSUME AInv, NEW c \in Coro, ChannelStep(c) PROVE AInv'
  BY OutsideStep, ReadReadyStep, ReadSuspendStep, ReadResumeStep, WriteStep, WriteWakesStep, Zenon DEF ChannelStep

-----------------------------------------------------------------------------
(* The steps of the future *)

\* await_ready of a future that is done.
LEMMA AwaitReadyStep ==
  ASSUME AInv, NEW c \in Coro, Fu!await_ready(c), UNCHANGED channel PROVE AInv'
<1> USE DEF AInv
<1>1. /\ stack # <<>> /\ stack[1] = c /\ pc[c] = "code" /\ value # "monostate"
      /\ outcome' = [outcome EXCEPT ![c] = value]
      /\ UNCHANGED <<deferred, value, future_coros, future_insert_it, stack, pc, once, began, resumed>>
  BY RunningFacts, Zenon DEF Fu!await_ready, Fu!Running, Fu!done, Fu!Pending, Fu!result
<1>2. StackOK' /\ ~HeadResumed /\ ~HeadResumed'
  BY <1>1, Zenon DEF StackOK, Distinct, HeadResumed
<1>3. ChannelOK'
  <2>1. pc' \in [Coro -> Places] /\ \A d \in Coro : pc[d] = "reading" <=> pc'[d] = "reading"
    BY <1>1, Zenon DEF Types
  <2> QED BY <1>2, <2>1, ChannelKept, Zenon
<1>4. Waiters' /\ Resolved' /\ Ordered'
  BY <1>1, ZenonT(60) DEF FutureOK, Waiters, Resolved, Ordered, Distinct, Early
<1>5. Outcome'
  BY <1>1, Zenon DEF FutureOK, Outcome, Early, Types
<1>6. Types'
  BY <1>1, Zenon DEF Types, channel
<1> QED BY <1>2, <1>3, <1>4, <1>5, <1>6, Zenon DEF FutureOK

\* await_resume of a coroutine that was resumed.
LEMMA AwaitResumeStep ==
  ASSUME AInv, NEW c \in Coro, Fu!await_resume(c), UNCHANGED channel PROVE AInv'
<1> USE DEF AInv
<1>1. /\ stack # <<>> /\ stack[1] = c /\ pc[c] = "awaited"
      /\ outcome' = [outcome EXCEPT ![c] = IF value # "monostate" THEN value ELSE "bad_variant_access"]
      /\ pc' = [pc EXCEPT ![c] = "code"]
      /\ UNCHANGED <<deferred, value, future_coros, future_insert_it, stack, once, began, resumed>>
  BY RunningFacts, Zenon DEF Fu!await_resume, Fu!Running, Fu!done, Fu!Pending, Fu!result
<1>2. StackOK' /\ pc' \in [Coro -> Places] /\ ~HeadResumed'
  BY <1>1, StayStack, Zenon
<1>3. pc'[c] = "code" /\ \A d \in Coro : d # c => pc'[d] = pc[d]
  BY <1>1, Zenon DEF Types
<1>4. ChannelOK'
  <2>1. ~HeadResumed /\ \A d \in Coro : pc[d] = "reading" <=> pc'[d] = "reading"
    BY <1>1, <1>3, Zenon DEF HeadResumed
  <2> QED BY <1>2, <2>1, ChannelKept, Zenon
<1>5. Waiters'
  <2>1. once \subseteq Coro /\ \A i \in 1..Len(future_coros) : future_coros[i] \in Coro
    BY DEF Types
  <2>2. future_coros' = future_coros /\ once' = once
    BY <1>1, Zenon
  <2>3. pc[c] # "waiting"
    BY <1>1, Zenon
  <2>4. Waiters
    BY Zenon DEF FutureOK
  <2> QED BY <1>3, <2>1, <2>2, <2>3, <2>4, Zenon DEF Waiters, Distinct
<1>6. Resolved' /\ Ordered'
  BY <1>1, <1>3, Zenon DEF FutureOK, Resolved, Ordered, Early
<1>7. Outcome'
  <2>1. value # "monostate" \/ Early
    BY <1>1, Zenon DEF FutureOK, Resolved
  <2>2. /\ outcome'[c] = IF value # "monostate" THEN value ELSE "bad_variant_access"
        /\ \A d \in Coro : d # c => outcome'[d] = outcome[d]
    BY <1>1, Zenon DEF Types
  <2> QED BY <1>1, <2>1, <2>2, Zenon DEF FutureOK, Outcome, Early
<1>8. Types'
  BY <1>1, <1>2, Zenon DEF Types, channel
<1> QED BY <1>2, <1>4, <1>5, <1>6, <1>7, <1>8, Zenon DEF FutureOK

\* set_result, set_exception and cancel store the outcome.
LEMMA SetStep ==
  ASSUME AInv, NEW c \in Coro, NEW v \in Fu!Outcomes, Fu!set(c, v), UNCHANGED channel PROVE AInv'
<1> USE DEF AInv
<1>1. /\ stack # <<>> /\ stack[1] = c /\ pc[c] = "code" /\ value = "monostate"
      /\ value' = v /\ v \in {"result", "exception"}
      /\ pc' = [pc EXCEPT ![c] = "resume_awaiters"]
      /\ UNCHANGED <<deferred, future_coros, future_insert_it, stack, once, outcome, began, resumed>>
  BY RunningFacts, Zenon DEF Fu!set, Fu!Running, Fu!done, Fu!Pending, Fu!Outcomes
<1>2. StackOK' /\ pc' \in [Coro -> Places] /\ ~HeadResumed'
  BY <1>1, StayStack, Zenon
<1>3. pc'[c] = "resume_awaiters" /\ \A d \in Coro : d # c => pc'[d] = pc[d]
  BY <1>1, Zenon DEF Types
<1>4. ChannelOK'
  <2>1. ~HeadResumed /\ \A d \in Coro : pc[d] = "reading" <=> pc'[d] = "reading"
    BY <1>1, <1>3, Zenon DEF HeadResumed
  <2> QED BY <1>2, <2>1, ChannelKept, Zenon
<1>5. Waiters'
  <2>1. once \subseteq Coro /\ \A i \in 1..Len(future_coros) : future_coros[i] \in Coro
    BY DEF Types
  <2>2. future_coros' = future_coros /\ once' = once
    BY <1>1, Zenon
  <2>3. pc[c] # "waiting"
    BY <1>1, Zenon
  <2>4. Waiters
    BY Zenon DEF FutureOK
  <2> QED BY <1>3, <2>1, <2>2, <2>3, <2>4, Zenon DEF Waiters, Distinct
<1>6. Resolved' /\ Ordered' /\ Outcome'
  BY <1>1, <1>3, Zenon DEF FutureOK, Resolved, Ordered, Outcome, Early
<1>7. Types'
  BY <1>1, <1>2, Zenon DEF Types, channel
<1> QED BY <1>2, <1>4, <1>5, <1>6, <1>7, Zenon DEF FutureOK

\* The loop of resume_awaiters is over.
LEMMA SetReturnStep ==
  ASSUME AInv, NEW c \in Coro, Fu!set_return(c), UNCHANGED channel PROVE AInv'
<1> USE DEF AInv
<1>1. /\ stack # <<>> /\ stack[1] = c /\ pc[c] = "resume_awaiters"
      /\ pc' = [pc EXCEPT ![c] = "code"]
      /\ UNCHANGED <<deferred, value, future_coros, future_insert_it, stack, once, outcome, began, resumed>>
  BY RunningFacts, Zenon DEF Fu!set_return, Fu!Running
<1>2. StackOK' /\ pc' \in [Coro -> Places] /\ ~HeadResumed'
  BY <1>1, StayStack, Zenon
<1>3. ChannelOK'
  <2>1. ~HeadResumed /\ \A d \in Coro : pc[d] = "reading" <=> pc'[d] = "reading"
    BY <1>1, Zenon DEF HeadResumed, Types
  <2> QED BY <1>2, <2>1, ChannelKept, Zenon
<1>4. FutureOK'
  BY <1>1, FutureKept, Zenon DEF future
<1>5. Types'
  BY <1>1, <1>2, Zenon DEF Types, channel
<1> QED BY <1>2, <1>3, <1>4, <1>5, Zenon

\* await_suspend links the coroutine behind the others, unless the iterator
\* dangles, which of a pending future only a DeferredFuture's does.
LEMMA AwaitSuspendStep ==
  ASSUME AInv, NEW c \in Coro, Fu!await_suspend(c), UNCHANGED channel PROVE AInv'
<1> USE DEF AInv
<1>1. /\ stack # <<>> /\ stack[1] = c /\ pc[c] = "code" /\ value = "monostate"
      /\ future_coros' = IF future_insert_it \in {"before_begin", "back"}
                         THEN Append(future_coros, c) ELSE future_coros
      /\ future_insert_it' = IF future_insert_it = "before_begin" THEN "back" ELSE future_insert_it
      /\ stack' = Tail(stack) /\ pc' = [pc EXCEPT ![c] = "waiting"] /\ began' = Append(began, c)
      /\ UNCHANGED <<deferred, value, once, outcome, resumed>>
  BY RunningFacts, Zenon DEF Fu!await_suspend, Fu!Running, Fu!done, Fu!Pending
<1>2. StackOK' /\ stack' \in Seq(Coro) /\ pc' \in [Coro -> Places] /\ ~HeadResumed'
  BY <1>1, PopStack, Zenon
<1>3. pc'[c] = "waiting" /\ \A d \in Coro : d # c => pc'[d] = pc[d]
  BY <1>1, Zenon DEF Types
<1>4. ChannelOK'
  <2>1. ~HeadResumed /\ \A d \in Coro : pc[d] = "reading" <=> pc'[d] = "reading"
    BY <1>1, <1>3, Zenon DEF HeadResumed
  <2> QED BY <1>2, <2>1, ChannelKept, Zenon
<1>5. Resolved' /\ Outcome'
  BY <1>1, <1>3, Zenon DEF FutureOK, Resolved, Outcome, Early
<1>6. future_coros \in Seq(Coro) /\ began \in Seq(Coro) /\ resumed \in Seq(Coro) /\ once \in SUBSET Coro
  BY Zenon DEF Types
<1>7. /\ Distinct(future_coros) /\ c \notin once /\ \A d \in once : d \in Coro /\ pc[d] = "waiting"
      /\ \A i \in 1..Len(future_coros) :
           /\ future_coros[i] \in Coro /\ future_coros[i] # c
           /\ future_coros[i] \notin once /\ pc[future_coros[i]] = "waiting"
  BY <1>1, <1>6 DEF FutureOK, Waiters
<1>8. /\ began' \in Seq(Coro) /\ Len(began') = Len(began) + 1 /\ Len(began) \in Nat
      /\ \A i \in 1..Len(began) : began'[i] = began[i]
      /\ began'[Len(began) + 1] = c
  BY <1>1, <1>6, AppendFacts
<1>9. future_coros' \in Seq(Coro) /\ Waiters' /\ Ordered'
  <2>1. CASE future_insert_it \notin {"before_begin", "back"}
    <3>1. future_coros' = future_coros /\ deferred /\ deferred'
      BY <1>1, <2>1, Zenon DEF FutureOK, Resolved, Early
    <3>2. Waiters'
      BY <1>1, <1>3, <1>7, <3>1 DEF Waiters, Distinct
    <3> QED BY <1>6, <3>1, <3>2, Zenon DEF Ordered
  <2>2. CASE future_insert_it \in {"before_begin", "back"}
    <3>1. /\ future_coros' \in Seq(Coro) /\ Len(future_coros') = Len(future_coros) + 1
          /\ Len(future_coros) \in Nat
          /\ \A i \in 1..Len(future_coros) : future_coros'[i] = future_coros[i]
          /\ future_coros'[Len(future_coros) + 1] = c
      BY <1>1, <1>6, <2>2, AppendFacts
    <3>2. \A i \in 1..Len(future_coros') : i \in 1..Len(future_coros) \/ i = Len(future_coros) + 1
      BY <3>1
    <3>3. Distinct(future_coros)'
      BY <1>7, <3>1, <3>2 DEF Distinct
    <3>4. \A i \in 1..Len(future_coros') : pc'[future_coros'[i]] = "waiting" /\ future_coros'[i] \notin once
      BY <1>3, <1>7, <3>1, <3>2
    <3>5. \A d \in once : pc'[d] = "waiting"
      BY <1>3, <1>7, Zenon
    <3>6. Waiters'
      BY <1>1, <3>3, <3>4, <3>5, Zenon DEF Waiters
    <3>7. Ordered'
      <4> SUFFICES ASSUME ~deferred PROVE Ordered'
        BY <1>1, Zenon DEF Ordered
      <4>1. /\ Len(began) = Len(resumed) + Len(future_coros) /\ Len(resumed) \in Nat
            /\ \A i \in 1..Len(resumed) : began[i] = resumed[i]
            /\ \A i \in 1..Len(future_coros) : began[Len(resumed) + i] = future_coros[i]
        BY <1>6 DEF FutureOK, Ordered
      <4>2. \A i \in 1..Len(resumed) : began'[i] = resumed[i]
        BY <1>8, <3>1, <4>1
      <4>3. \A i \in 1..Len(future_coros) : began'[Len(resumed) + i] = future_coros[i]
        <5>1. \A i \in 1..Len(future_coros) : Len(resumed) + i \in 1..Len(began)
          BY <3>1, <4>1
        <5> QED BY <1>8, <4>1, <5>1, Zenon
      <4>4. \A i \in 1..Len(future_coros') : began'[Len(resumed) + i] = future_coros'[i]
        <5>1. began'[Len(resumed) + (Len(future_coros) + 1)] = c
          BY <1>8, <3>1, <4>1
        <5> QED BY <3>1, <3>2, <4>3, <5>1, Zenon
      <4>5. Len(began') = Len(resumed) + Len(future_coros')
        BY <1>8, <3>1, <4>1
      <4> QED BY <1>1, <4>2, <4>4, <4>5, Zenon DEF Ordered
    <3> QED BY <3>1, <3>6, <3>7, Zenon
  <2> QED BY <2>1, <2>2, Zenon
<1>10. Types'
  BY <1>1, <1>2, <1>8, <1>9, Zenon DEF Types, channel
<1> QED BY <1>2, <1>4, <1>5, <1>9, <1>10, Zenon DEF FutureOK

\* One turn of the loop of resume_awaiters: the first one is resumed.
LEMMA ResumeAwaiterStep ==
  ASSUME AInv, NEW c \in Coro, Fu!resume_awaiter(c), UNCHANGED channel PROVE AInv'
<1> DEFINE d == future_coros[1]
<1>1. Types /\ StackOK /\ ChannelOK /\ Waiters /\ Resolved /\ Ordered /\ Outcome
  BY Zenon DEF AInv, FutureOK
<1>2. future_coros # <<>> /\ future_coros \in Seq(Coro) /\ resumed \in Seq(Coro)
  BY <1>1, Zenon DEF Fu!resume_awaiter, Fu!pop_front, Types
<1>3. /\ Len(future_coros) \in Nat /\ Len(future_coros) >= 1 /\ Head(future_coros) = d /\ d \in Coro
      /\ Tail(future_coros) \in Seq(Coro) /\ Len(Tail(future_coros)) = Len(future_coros) - 1
      /\ \A i \in 1..Len(future_coros) - 1 : Tail(future_coros)[i] = future_coros[i + 1]
  BY <1>2, TailFacts, Zenon
<1>4. /\ stack # <<>> /\ stack[1] = c /\ pc[c] = "resume_awaiters"
      /\ future_coros' = Tail(future_coros)
      /\ future_insert_it' = IF Len(future_coros) = 1 THEN "dangling" ELSE future_insert_it
      /\ stack' = <<d>> \o stack /\ pc' = [pc EXCEPT ![d] = "awaited"] /\ resumed' = Append(resumed, d)
      /\ UNCHANGED <<deferred, value, once, outcome, began>>
  BY <1>1, <1>3, RunningFacts, Zenon DEF Fu!resume_awaiter, Fu!pop_front, Fu!Running
<1>5. 1 \in 1..Len(future_coros) /\ pc[d] = "waiting" /\ d \notin once
  BY <1>1, <1>3 DEF Waiters
<1>6. StackOK' /\ stack' \in Seq(Coro) /\ pc' \in [Coro -> Places] /\ ~HeadResumed'
  BY <1>1, <1>3, <1>4, <1>5, PushStack, Zenon DEF Busy
<1>7. pc'[d] = "awaited" /\ \A e \in Coro : e # d => pc'[e] = pc[e]
  BY <1>1, <1>3, <1>4, Zenon DEF Types
<1>8. ChannelOK'
  <2>1. ~HeadResumed /\ \A e \in Coro : pc[e] = "reading" <=> pc'[e] = "reading"
    BY <1>4, <1>5, <1>7, Zenon DEF HeadResumed
  <2> QED BY <1>1, <1>6, <2>1, ChannelKept, Zenon
<1>9. value # "monostate"
  BY <1>1, <1>4, Zenon DEF Resolved
<1>10. Resolved' /\ Outcome'
  BY <1>1, <1>4, <1>7, <1>9, Zenon DEF Resolved, Outcome, Early
<1>11. \A i \in 1..Len(future_coros') :
         /\ future_coros'[i] = future_coros[i + 1] /\ i + 1 \in 1..Len(future_coros) /\ i + 1 # 1
  BY <1>3, <1>4
<1>12. \A i \in 1..Len(future_coros') :
         /\ future_coros'[i] \in Coro /\ future_coros'[i] # d
         /\ future_coros'[i] \notin once /\ pc[future_coros'[i]] = "waiting"
  <2>1. \A i \in 1..Len(future_coros) : future_coros[i] \in Coro
    BY <1>2
  <2> QED BY <1>1, <1>5, <1>11, <2>1, SMTT(60) DEF Waiters, Distinct
<1>13. Waiters'
  <2>1. Distinct(future_coros)'
    BY <1>1, <1>3, <1>4, <1>11 DEF Waiters, Distinct
  <2>2. \A e \in once : e \in Coro /\ pc'[e] = "waiting"
    BY <1>1, <1>5, <1>7, Zenon DEF Waiters, Types
  <2> QED BY <1>4, <1>7, <1>12, <2>1, <2>2, ZenonT(60) DEF Waiters
<1>14. /\ resumed' \in Seq(Coro) /\ Len(resumed') = Len(resumed) + 1 /\ Len(resumed) \in Nat
       /\ \A i \in 1..Len(resumed) : resumed'[i] = resumed[i]
       /\ resumed'[Len(resumed) + 1] = d
  BY <1>2, <1>3, <1>4, AppendFacts
<1>15. Ordered'
  <2> SUFFICES ASSUME ~deferred PROVE Ordered'
    BY <1>4, Zenon DEF Ordered
  <2>1. /\ Len(began) = Len(resumed) + Len(future_coros)
        /\ \A i \in 1..Len(resumed) : began[i] = resumed[i]
        /\ \A i \in 1..Len(future_coros) : began[Len(resumed) + i] = future_coros[i]
    BY <1>1, Zenon DEF Ordered
  <2>2. \A i \in 1..Len(resumed') : began[i] = resumed'[i]
    <3>1. \A i \in 1..Len(resumed') : i \in 1..Len(resumed) \/ i = Len(resumed) + 1
      BY <1>14
    <3>2. began[Len(resumed) + 1] = d
      BY <1>5, <2>1, Zenon
    <3> QED BY <1>14, <2>1, <3>1, <3>2, Zenon
  <2>3. \A i \in 1..Len(future_coros') : began[Len(resumed') + i] = future_coros'[i]
    <3>1. \A i \in 1..Len(future_coros') : Len(resumed') + i = Len(resumed) + (i + 1)
      BY <1>14
    <3> QED BY <1>11, <2>1, <3>1, Zenon
  <2>4. Len(began) = Len(resumed') + Len(future_coros')
    BY <1>3, <1>4, <1>14, <2>1
  <2> QED BY <1>4, <2>2, <2>3, <2>4, Zenon DEF Ordered
<1>16. Types'
  BY <1>1, <1>3, <1>4, <1>6, <1>14, Zenon DEF Types, channel
<1> QED BY <1>6, <1>8, <1>10, <1>13, <1>15, <1>16, Zenon DEF AInv, FutureOK

\* DeferredFuture::resume_awaiters: all of them get a callback.
LEMMA ScheduleStep ==
  ASSUME AInv, NEW c \in Coro, Fu!schedule_awaiters(c), UNCHANGED channel PROVE AInv'
<1> USE DEF AInv
<1>1. /\ stack # <<>> /\ stack[1] = c /\ pc[c] = "code" /\ deferred
      /\ future_coros' = <<>> /\ future_insert_it' = "dangling"
      /\ once' = once \cup {future_coros[i] : i \in 1..Len(future_coros)}
      /\ UNCHANGED <<deferred, value, stack, pc, outcome, began, resumed>>
  BY RunningFacts, Zenon DEF Fu!schedule_awaiters, Fu!Running
<1>2. StackOK' /\ ~HeadResumed /\ ~HeadResumed'
  BY <1>1, Zenon DEF StackOK, Distinct, HeadResumed
<1>3. ChannelOK'
  <2>1. pc' \in [Coro -> Places] /\ \A d \in Coro : pc[d] = "reading" <=> pc'[d] = "reading"
    BY <1>1, Zenon DEF Types
  <2> QED BY <1>2, <2>1, ChannelKept, Zenon
<1>4. Resolved' /\ Ordered' /\ Outcome'
  BY <1>1, Zenon DEF FutureOK, Resolved, Ordered, Outcome, Early
<1>5. \A d \in once' : d \in Coro /\ pc[d] = "waiting"
  BY <1>1, SMTT(60) DEF FutureOK, Waiters, Types
<1>6. future_coros' \in Seq(Coro) /\ Waiters'
  <2>1. Len(future_coros') = 0 /\ future_coros' \in Seq(Coro)
    BY <1>1
  <2> QED BY <1>1, <1>5, <2>1 DEF Waiters, Distinct
<1>7. Types'
  BY <1>1, <1>5, <1>6, Zenon DEF Types, channel
<1> QED BY <1>2, <1>3, <1>4, <1>6, <1>7, Zenon DEF FutureOK

\* The event loop runs a callback.
LEMMA CallbackSteps ==
  ASSUME AInv, NEW c \in Coro, CallbackStep(c) PROVE AInv'
<1> USE DEF AInv
<1>1. /\ stack = <<>> /\ c \in once /\ once' = once \ {c}
      /\ stack' = <<c>> /\ pc' = [pc EXCEPT ![c] = "awaited"] /\ resumed' = Append(resumed, c)
      /\ UNCHANGED <<deferred, value, future_coros, future_insert_it, outcome, began>>
      /\ UNCHANGED channel
  BY Zenon DEF CallbackStep, Fu!resume_coro
<1>2. StackOK' /\ stack' \in Seq(Coro) /\ pc' \in [Coro -> Places] /\ ~HeadResumed'
  BY <1>1, EnterStack, Zenon
<1>3. pc[c] = "waiting" /\ pc'[c] = "awaited" /\ \A d \in Coro : d # c => pc'[d] = pc[d]
  BY <1>1, Zenon DEF FutureOK, Waiters, Types
<1>4. ChannelOK'
  <2>1. ~HeadResumed /\ \A d \in Coro : pc[d] = "reading" <=> pc'[d] = "reading"
    BY <1>1, <1>3, Zenon DEF HeadResumed
  <2> QED BY <1>1, <1>2, <2>1, ChannelKept, Zenon
<1>5. Early
  BY <1>1, Zenon DEF FutureOK, Resolved
<1>6. Resolved' /\ Ordered' /\ Outcome'
  BY <1>1, <1>3, <1>5, Zenon DEF FutureOK, Resolved, Ordered, Outcome, Early
<1>7. Waiters'
  <2>1. \A i \in 1..Len(future_coros) : future_coros[i] \in Coro /\ future_coros[i] # c
    BY <1>1 DEF FutureOK, Waiters, Types
  <2>2. \A d \in once : d \in Coro
    BY Zenon DEF Types
  <2> QED BY <1>1, <1>3, <2>1, <2>2 DEF FutureOK, Waiters, Distinct
<1>8. resumed' \in Seq(Coro)
  BY <1>1, AppendFacts, Zenon DEF Types
<1>9. Types'
  BY <1>1, <1>2, <1>8, Zenon DEF Types, channel
<1> QED BY <1>2, <1>4, <1>6, <1>7, <1>9, Zenon DEF FutureOK

-----------------------------------------------------------------------------
(* The invariant *)

\* It holds when the coroutines, the channel and the future were made.
LEMMA AInvInit == InitBoth => AInv
<1> SUFFICES ASSUME InitBoth PROVE AInv
  BY Zenon
<1>1. /\ queue = <<>> /\ awaiting_coros = <<>> /\ insert_it = "before_begin" /\ stack = <<>>
      /\ pc = [c \in Coro |-> "idle"] /\ sent = 0 /\ got = <<>>
      /\ since = [c \in Coro |-> 0] /\ clock = 0
  BY Zenon DEF InitBoth, Init
<1>2. /\ deferred \in BOOLEAN /\ future_coros = <<>> /\ once = {} /\ outcome = [c \in Coro |-> "none"]
      /\ began = <<>> /\ resumed = <<>>
      /\ \/ value = "monostate" /\ future_insert_it = "before_begin"
         \/ value = "result" /\ future_insert_it = "uninitialized"
  BY Zenon DEF InitBoth, Fu!Init, Fu!Pending
<1>3. Types
  BY <1>1, <1>2 DEF Types, Places
<1>4. StackOK /\ ~HeadResumed
  BY <1>1 DEF StackOK, Distinct, HeadResumed
<1>5. ChannelOK
  BY <1>1, <1>4 DEF ChannelOK, FirstInFirstOut, Handed, LinkedUntilDrained, Linked, Clocked
<1>6. FutureOK
  BY <1>1, <1>2 DEF FutureOK, Waiters, Distinct, Resolved, Early, Ordered, Outcome
<1> QED BY <1>3, <1>4, <1>5, <1>6, Zenon DEF AInv

\* Every step keeps it.
LEMMA AInvStep == AInv /\ [NextBoth]_allvars => AInv'
<1> SUFFICES ASSUME AInv, [NextBoth]_allvars PROVE AInv'
  BY Zenon
<1>1. ASSUME NEW c \in Coro, FutureStep(c) PROVE AInv'
  BY Zenon, <1>1, AwaitReadyStep, AwaitSuspendStep, AwaitResumeStep, SetStep, ResumeAwaiterStep,
     SetReturnStep, ScheduleStep DEF FutureStep
<1>2. CASE UNCHANGED allvars
  <2>1. UNCHANGED <<queue, awaiting_coros, insert_it, sent, got, since, clock, stack, pc>>
    BY <1>2, Zenon DEF allvars, channel
  <2>2. UNCHANGED <<deferred, value, future_coros, future_insert_it, once, outcome, began, resumed>>
    BY <1>2, Zenon DEF allvars, future
  <2>3. Types' /\ StackOK'
    BY <2>1, <2>2, Zenon DEF AInv, Types, StackOK, Distinct
  <2>4. ChannelOK'
    BY <2>1, Zenon DEF AInv, ChannelOK, FirstInFirstOut, Handed, HeadResumed, LinkedUntilDrained, Linked, Clocked
  <2>5. FutureOK'
    BY <2>1, <2>2 DEF AInv, FutureOK, Waiters, Distinct, Resolved, Early, Ordered, Outcome
  <2> QED BY <2>3, <2>4, <2>5, Zenon DEF AInv
<1> QED BY <1>1, <1>2, ChannelSteps, CallbackSteps, Zenon DEF NextBoth

\* So it holds always.
THEOREM Reachable == SpecBoth => []AInv
  BY AInvInit, AInvStep, PTL DEF SpecBoth

-----------------------------------------------------------------------------
(* The properties *)

\* Channel.hh: every item written is read once and in order, for any number of
\* items, readers and writers, however write() and set_result() nest.
THEOREM ItemsInOrder == SpecBoth => []FirstInFirstOut
<1>1. AInv => FirstInFirstOut
  BY Zenon DEF AInv, ChannelOK
<1> QED BY <1>1, Reachable, PTL

\* Channel.hh: the reader that write() resumes finds the item, which nobody can
\* take first; front() of an empty queue (Channel::ReadAwaiter::await_resume) is
\* never called.
THEOREM ReaderHasItem == SpecBoth => []ItemForResumed
<1>1. AInv => ItemForResumed
  <2> SUFFICES ASSUME AInv PROVE ItemForResumed
    BY Zenon
  <2>1. stack \in Seq(Coro) /\ StackOK /\ Handed
    BY Zenon DEF AInv, Types, ChannelOK
  <2>2. \A i \in 1..Len(stack) : pc[stack[i]] = "resumed" => i = 1 /\ stack # <<>>
    BY <2>1 DEF StackOK, Busy
  <2>3. stack # <<>> => Head(stack) = stack[1]
    BY <2>1
  <2> QED BY <2>1, <2>2, <2>3, Zenon DEF ItemForResumed, Handed, HeadResumed
<1> QED BY <1>1, Reachable, PTL

\* Channel.hh: write() wakes the reader that has waited the longest, and until
\* the list of waiters was first emptied every suspended reader is in it.
THEOREM ReadersInOrder == SpecBoth => []LinkedUntilDrained
<1>1. AInv => LinkedUntilDrained
  BY Zenon DEF AInv, ChannelOK
<1> QED BY <1>1, Reachable, PTL

\* Future.hh: coroutines are resumed in the order in which they began to wait,
\* none is forgotten and none is resumed twice, for any number of them.
THEOREM AwaitersInOrder == SpecBoth => []ResumedInOrder
<1>1. AInv => ResumedInOrder
  <2> SUFFICES ASSUME AInv PROVE ResumedInOrder
    BY Zenon
  <2>1. future_coros \in Seq(Coro) /\ Waiters /\ Ordered
    BY Zenon DEF AInv, Types, FutureOK
  <2>2. (\A c \in Fu!Linked \cup once : pc[c] = "waiting") /\ Fu!Linked \cap once = {}
    BY <2>1, Zenon DEF Waiters, Fu!Linked
  <2> QED BY <2>1, <2>2, Zenon DEF Waiters, Distinct, Ordered, ResumedInOrder, Fu!ResumedInOrder
<1> QED BY <1>1, Reachable, PTL

\* Future.hh, Base.hh: all coroutines get the outcome that the future was
\* resolved with; only a DeferredFuture whose resume_awaiters was called can
\* give bad_variant_access.
THEOREM OneOutcome == SpecBoth => []OutcomeOrBadAccess
<1>1. AInv => OutcomeOrBadAccess
  BY Zenon DEF AInv, FutureOK, Outcome, Early, OutcomeOrBadAccess, Fu!OutcomeOrBadAccess, Fu!done, Fu!Pending
<1> QED BY <1>1, Reachable, PTL
=============================================================================
