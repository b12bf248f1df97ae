----------------------------- MODULE TaskProofs -----------------------------
(***************************************************************************)
(* The safety properties of Task, proved for any number of coroutines, any *)
(* ownership forest and any limits.  They follow from one inductive        *)
(* invariant, IInv; one lemma per action shows that the action keeps it.   *)
(***************************************************************************)
EXTENDS Task, FiniteSetTheorems, TLAPS

-----------------------------------------------------------------------------
(* The inductive invariant *)

\* A coroutine that was not started is untouched, one that is done has left its
\* last combinator; the owner's frame is the only place a frame can be.
Lifecycle ==
  \A c \in Coro :
    /\ ~started[c] => awaiting[c] = Null /\ pc[c] = "body" /\ c \notin finished
    /\ c \in finished => pc[c] = "body"
    /\ Pending(c) /\ c \notin Active => pc[c] \in {"blocked", "await_resume"}
    /\ awaiting[c] # Null => awaiting[c] = Owner[c]

\* Below the head of the stack, a coroutine is inside a call of start() or of
\* resume(), never in a co_await.
Callers ==
  \A c \in Active : c # Current => pc[c] \in {"body", "starting", "limiting"}

\* Which combinators get to which place; only multi counts downwards.
Places ==
  \A c \in Coro :
    /\ pc[c] = "starting" => fr[c].kind \in {"multi", "all", "any"}
    /\ pc[c] = "waiting" => fr[c].kind \in {"await", "multi", "all"}
    /\ pc[c] = "limiting" => fr[c].kind = "all_limit"
    /\ pc[c] = "returning" => fr[c].kind = "any"
    /\ pc[c] = "starting" \/ fr[c].kind # "multi" => fr[c].it >= fr[c].lo
    /\ pc[c] \in {"waiting", "await_resume"} /\ fr[c].kind = "multi" => fr[c].it <= fr[c].hi

\* The tasks a combinator has passed are done or in its AnyAwaiter.
Progress ==
  \A c \in Coro :
    /\ pc[c] \in {"waiting", "await_resume"} /\ fr[c].kind \in {"await", "all"} =>
         \A t \in TaskRange(c) : t < fr[c].it => done(t)
    /\ pc[c] \in {"waiting", "await_resume"} /\ fr[c].kind = "multi" =>
         \A t \in TaskRange(c) : t > fr[c].it => done(t)
    /\ pc[c] \in {"limiting", "await_resume"} /\ fr[c].kind = "all_limit" =>
         \A t \in TaskRange(c) : t < fr[c].it => done(t) \/ t \in fr[c].aw
    /\ pc[c] = "returning" => fr[c].got \in TaskRange(c) /\ done(fr[c].got)

\* What is awaited: the tasks of an AnyAwaiter are started, and await_resume
\* runs when (one of) the awaited task(s) is done.
Awaited ==
  \A c \in Coro :
    /\ pc[c] \in {"starting", "waiting", "limiting", "await_resume"} =>
         \A t \in fr[c].aw : started[t]
    /\ pc[c] = "await_resume" /\ ~UsesAny(c) => fr[c].it \in TaskRange(c)
    /\ pc[c] = "await_resume" /\ c \in Active => \E t \in WaitSet(c) : done(t)

\* all_limit: the AnyAwaiter is never too large, and the tasks that were not
\* started at the call are started only when the iterator passes them.
Limited ==
  \A c \in Coro : InCall(c) /\ fr[c].kind = "all_limit" =>
    /\ Cardinality(fr[c].aw) <= fr[c].lim
    /\ \A t \in fr[c].fresh :
         /\ t \in TaskRange(c)
         /\ t >= fr[c].it => ~started[t]
         /\ t < fr[c].it => done(t) \/ t \in fr[c].aw

IInv ==
  /\ TypeOK
  /\ NoReentry
  /\ Lifecycle
  /\ Callers
  /\ Places
  /\ LinkIntegrity
  /\ NoLostWakeup
  /\ Awaited
  /\ NoLogicError
  /\ Progress
  /\ Limited

-----------------------------------------------------------------------------
(* The stack *)

Distinct(s) == \A i, j \in 1..Len(s) : s[i] = s[j] => i = j

\* resume() by the running coroutine or by the event loop: t gets on the stack.
LEMMA PushEffect ==
  ASSUME stack \in Seq(Coro), Distinct(stack), NEW t \in Coro, t \notin Active,
         stack' = <<t>> \o stack
  PROVE  stack' \in Seq(Coro) /\ Distinct(stack)' /\ Active' = Active \cup {t} /\ Current' = t
<1>1. stack' \in Seq(Coro) /\ Len(stack') = Len(stack) + 1 /\ stack' # <<>>
  OBVIOUS
<1>2. \A i \in 1..Len(stack') : stack'[i] = IF i = 1 THEN t ELSE stack[i - 1]
  OBVIOUS
<1>3. \A i \in 1..Len(stack) : stack'[i + 1] = stack[i]
  BY <1>1, <1>2
<1>4. stack'[1] = t /\ Head(stack') = t
  BY <1>1, <1>2
<1>5. Distinct(stack)'
  BY <1>1, <1>2 DEF Distinct, Active
<1>6. Active' = Active \cup {t}
  BY <1>1, <1>2, <1>3, <1>4 DEF Active
<1> QED
  BY <1>1, <1>4, <1>5, <1>6, Zenon DEF Current

\* The running coroutine suspends.
LEMMA PopEffect ==
  ASSUME stack \in Seq(Coro), Distinct(stack), NEW c \in Coro, Running(c),
         stack' = Tail(stack)
  PROVE  stack' \in Seq(Coro) /\ Distinct(stack)' /\ Active' = Active \ {c}
<1>1. stack # <<>> /\ stack[1] = c /\ Len(stack) >= 1
  BY DEF Running, Current, Coro, Null
<1>2. stack' \in Seq(Coro) /\ Len(stack') = Len(stack) - 1
  BY <1>1
<1>3. \A i \in 1..Len(stack') : stack'[i] = stack[i + 1]
  BY <1>1, <1>2
<1>4. Distinct(stack)'
  BY <1>1, <1>2, <1>3 DEF Distinct
<1>5. Active' = Active \ {c}
  <2>1. ASSUME NEW x \in Active'  PROVE x \in Active \ {c}
    <3>1. PICK i \in 1..Len(stack') : x = stack'[i]
      BY Zenon DEF Active
    <3>2. i + 1 \in 1..Len(stack) /\ x = stack[i + 1] /\ i + 1 # 1
      BY <3>1, <1>2, <1>3
    <3> QED
      BY <3>2, <1>1 DEF Active, Distinct
  <2>2. ASSUME NEW x \in Active, x # c  PROVE x \in Active'
    <3>1. PICK i \in 1..Len(stack) : x = stack[i]
      BY Zenon DEF Active
    <3>2. i # 1 /\ i - 1 \in 1..Len(stack')
      BY <3>1, <2>2, <1>1, <1>2
    <3>3. x = stack'[i - 1]
      BY <3>1, <3>2, <1>3
    <3> QED
      BY <3>2, <3>3, Zenon DEF Active
  <2> QED
    BY <2>1, <2>2, Zenon
<1> QED
  BY <1>2, <1>4, <1>5, Zenon

\* Symmetric transfer: the running coroutine c suspends and p goes on.
LEMMA TransferEffect ==
  ASSUME stack \in Seq(Coro), Distinct(stack), NEW c \in Coro, Running(c),
         NEW p \in Coro, p \notin Active, stack' = <<p>> \o Tail(stack)
  PROVE  stack' \in Seq(Coro) /\ Distinct(stack)' /\ Active' = (Active \ {c}) \cup {p}
         /\ Current' = p
<1>1. stack # <<>> /\ stack[1] = c /\ Len(stack) >= 1
  BY DEF Running, Current, Coro, Null
<1>2. Tail(stack) \in Seq(Coro) /\ Len(Tail(stack)) = Len(stack) - 1
      /\ \A i \in 1..Len(stack) - 1 : Tail(stack)[i] = stack[i + 1]
  BY <1>1
<1>3. stack' \in Seq(Coro) /\ Len(stack') = Len(stack) /\ stack' # <<>>
  BY <1>1, <1>2
<1>4. \A i \in 1..Len(stack) : stack'[i] = IF i = 1 THEN p ELSE stack[i]
  <2> TAKE i \in 1..Len(stack)
  <2>1. CASE i = 1
    BY <2>1, <1>1, <1>2, <1>3
  <2>2. CASE i # 1
    <3>1. stack'[i] = Tail(stack)[i - 1] /\ i - 1 \in 1..Len(stack) - 1
      BY <2>2, <1>2
    <3> QED
      BY <3>1, <2>2, <1>2
  <2> QED
    BY <2>1, <2>2, Zenon
<1>5. Distinct(stack)'
  BY <1>3, <1>4 DEF Distinct, Active
<1>6. Active' = (Active \ {c}) \cup {p}
  BY <1>1, <1>3, <1>4 DEF Active, Distinct
<1>7. Current' = p
  BY <1>1, <1>3, <1>4 DEF Current
<1> QED
  BY <1>3, <1>5, <1>6, <1>7, Zenon

-----------------------------------------------------------------------------
(* Every step preserves the invariant *)

\* Nothing has been started: the invariant holds at first.
LEMMA InitIInv == Init => IInv
<1> SUFFICES ASSUME Init PROVE IInv
  BY Zenon
<1> USE NAssumption, OwnerAssumption, FuelAssumption DEF Init, Coro, Null
<1>1. Active = {}
  BY DEF Active
<1>2. TypeOK
  BY DEF TypeOK, PCs, Frame, NoFrame, Kinds, TaskRange
<1>3. NoReentry /\ Lifecycle /\ Callers /\ NoLostWakeup /\ LinkIntegrity
  BY <1>1 DEF NoReentry, Lifecycle, Callers, NoLostWakeup, LinkIntegrity, Pending, Suspended, done
<1>4. Places
  BY DEF Places, NoFrame
<1>5. Awaited /\ NoLogicError /\ Progress /\ Limited
  BY <1>1, Zenon DEF Awaited, NoLogicError, Progress, Limited, InCall
<1> QED
  BY <1>2, <1>3, <1>4, <1>5, Zenon DEF IInv

\* What the invariant says of the stack, in terms of Active and Current.
LEMMA StackFacts ==
  ASSUME IInv
  PROVE  /\ Active \subseteq Coro /\ Null \notin Coro
         /\ Current = Null \/ Current \in Active
         /\ Distinct(stack)
         /\ \A c \in Active : c \in Coro /\ started[c] /\ c \notin finished /\ pc[c] # "blocked"
<1> USE DEF IInv
<1>1. Null \notin Coro
  BY DEF Null, Coro
<1>2. Active \subseteq Coro
  BY DEF TypeOK, Active
<1>3. Current = Null \/ Current \in Active
  <2>1. CASE stack = <<>>
    BY <2>1, Zenon DEF Current
  <2>2. CASE stack # <<>>
    <3>1. 1 \in 1..Len(stack) /\ Head(stack) = stack[1]
      BY <2>2 DEF TypeOK
    <3> QED
      BY <2>2, <3>1, Zenon DEF Current, Active
  <2> QED
    BY <2>1, <2>2, Zenon
<1>4. Distinct(stack)
  BY Zenon DEF NoReentry, Distinct
<1>5. \A c \in Active : c \in Coro /\ started[c] /\ c \notin finished /\ pc[c] # "blocked"
  BY <1>2, Zenon DEF NoReentry, Pending, done
<1> QED
  BY <1>1, <1>2, <1>3, <1>4, <1>5, Zenon

\* The running coroutine suspends for an event, and leaves the stack.
LEMMA BlockStep ==
  ASSUME IInv, NEW c \in Coro, Block(c)
  PROVE  IInv'
<1> USE DEF IInv, Block, UseFuel, Pending, done, Running
<1>1. stack' \in Seq(Coro) /\ Distinct(stack)' /\ Active' = Active \ {c}
  BY StackFacts, PopEffect, Zenon DEF TypeOK
<1>2. TypeOK'
  BY <1>1 DEF TypeOK, PCs, TaskRange
<1>3. NoReentry'
  BY <1>1 DEF NoReentry, Distinct, TypeOK
<1>4. Lifecycle'
  BY StackFacts, <1>1 DEF Lifecycle, TypeOK
<1>5. Callers'
  BY <1>1 DEF Callers, TypeOK
<1>6. LinkIntegrity' /\ NoLostWakeup'
  BY <1>1, SMTT(30) DEF LinkIntegrity, NoLostWakeup, Suspended, WaitSet, UsesAny, TypeOK, Callers
<1>7. Places' /\ Awaited' /\ NoLogicError' /\ Progress' /\ Limited'
  BY <1>1, SMTT(30)
  DEF Places, Awaited, NoLogicError, Progress, Limited, InCall, TypeOK, UsesAny, WaitSet, TaskRange
<1> QED
  BY <1>2, <1>3, <1>4, <1>5, <1>6, <1>7, Zenon

\* A DetachedTask is called: it gets on the stack, and nobody awaits it.
LEMMA SpawnStep ==
  ASSUME IInv, NEW c \in Coro, Spawn(c)
  PROVE  IInv'
<1> USE DEF IInv, Spawn, CodeRuns, Pending, done, Running
<1>1. stack' \in Seq(Coro) /\ Distinct(stack)' /\ Active' = Active \cup {c} /\ Current' = c
  BY StackFacts, PushEffect, Zenon DEF TypeOK
<1>2. TypeOK'
  BY <1>1, Zenon DEF TypeOK, TaskRange
<1>3. NoReentry'
  BY <1>1 DEF NoReentry, Distinct, TypeOK, Lifecycle
<1>4. Lifecycle'
  BY <1>1, ZenonT(60) DEF Lifecycle, TypeOK
<1>5. Callers'
  BY StackFacts, <1>1 DEF Callers, TypeOK
<1>6. LinkIntegrity' /\ NoLostWakeup'
  BY StackFacts, <1>1, SMTT(30)
  DEF LinkIntegrity, NoLostWakeup, Suspended, WaitSet, UsesAny, TypeOK, Callers, Lifecycle
<1>7. Places' /\ Awaited' /\ NoLogicError' /\ Progress'
  BY <1>1
  DEF Places, Awaited, NoLogicError, Progress, TypeOK, UsesAny, WaitSet, TaskRange, Lifecycle
<1>8. Limited'
  BY StackFacts, <1>1, SMTT(30) DEF Limited, InCall, TypeOK, TaskRange
<1> QED
  BY <1>2, <1>3, <1>4, <1>5, <1>6, <1>7, <1>8, Zenon

\* A blocked coroutine is resumed on top of the running one.
LEMMA WakeStep ==
  ASSUME IInv, NEW c \in Coro, Wake(c)
  PROVE  IInv'
<1> USE DEF IInv, Wake, CodeRuns, Pending, done, Running
<1>1. stack' \in Seq(Coro) /\ Distinct(stack)' /\ Active' = Active \cup {c} /\ Current' = c
  BY StackFacts, PushEffect, Zenon DEF TypeOK
<1>2. TypeOK'
  BY <1>1, Zenon DEF TypeOK, TaskRange, PCs
<1>3. NoReentry'
  BY <1>1, SMTT(30) DEF NoReentry, Distinct, TypeOK, Lifecycle
<1>4. Lifecycle'
  BY <1>1, Zenon DEF Lifecycle, TypeOK
<1>5. Callers'
  BY StackFacts, <1>1, SMTT(30) DEF Callers, TypeOK
<1>6. LinkIntegrity' /\ NoLostWakeup'
  BY StackFacts, <1>1, SMTT(30)
  DEF LinkIntegrity, NoLostWakeup, Suspended, WaitSet, UsesAny, TypeOK, Callers, Lifecycle
<1>7. Places' /\ Awaited' /\ NoLogicError' /\ Progress'
  BY <1>1
  DEF Places, Awaited, NoLogicError, Progress, TypeOK, UsesAny, WaitSet, TaskRange, Lifecycle
<1>8. Limited'
  BY <1>1, SMTT(30) DEF Limited, InCall, TypeOK, TaskRange
<1> QED
  BY <1>2, <1>3, <1>4, <1>5, <1>6, <1>7, <1>8, Zenon

\* A coroutine ends, and FinalAwaiter transfers control to the one linked to it.
LEMMA FinishStep ==
  ASSUME IInv, NEW c \in Coro, Finish(c)
  PROVE  IInv'
<1> USE DEF IInv, Finish, FinalAwaiter, Pending, done, Running
<1>1. c \in Active
  BY StackFacts, Zenon
<1>2. /\ stack' \in Seq(Coro) /\ Distinct(stack)'
      /\ \/ awaiting[c] = Null /\ Active' = Active \ {c}
         \/ /\ awaiting[c] \in Coro /\ awaiting[c] \notin Active
            /\ Active' = (Active \ {c}) \cup {awaiting[c]} /\ Current' = awaiting[c]
  <2>1. CASE awaiting[c] = Null
    BY StackFacts, <2>1, PopEffect, Zenon DEF TypeOK
  <2>2. CASE awaiting[c] # Null
    <3>1. awaiting[c] \in Coro /\ awaiting[c] \notin Active
      BY StackFacts, <1>1, <2>2, Zenon DEF TypeOK, LinkIntegrity
    <3> QED
      BY StackFacts, <2>2, <3>1, TransferEffect, Zenon DEF TypeOK
  <2> QED
    BY <2>1, <2>2, Zenon
<1>3. TypeOK'
  BY <1>2 DEF TypeOK, TaskRange
<1>4. NoReentry'
  <2>1. ASSUME NEW x \in Active'  PROVE started[x] /\ x # c /\ x \notin finished /\ pc[x] # "blocked"
    <3>1. CASE x \in Active /\ x # c
      BY StackFacts, <3>1, Zenon
    <3>2. CASE awaiting[c] \in Coro /\ x = awaiting[c] /\ x \notin Active
      BY StackFacts, <3>2, <1>1, ZenonT(60) DEF LinkIntegrity, Lifecycle, TypeOK
    <3> QED
      BY <1>1, <1>2, <3>1, <3>2, Zenon
  <2> QED
    BY <1>2, <2>1, Zenon DEF NoReentry, Distinct, TypeOK
<1>5. Lifecycle'
  BY StackFacts, <1>1, <1>2, SMTT(30) DEF Lifecycle, TypeOK
<1>6. Callers'
  BY <1>2 DEF Callers, TypeOK
<1>7. LinkIntegrity'
  BY <1>1, <1>2, SMTT(60) DEF LinkIntegrity, WaitSet, UsesAny, TypeOK, Callers
<1>8. NoLostWakeup'
  BY StackFacts, <1>1, <1>2, SMTT(60) DEF NoLostWakeup, Suspended, WaitSet, UsesAny, TypeOK, Callers
<1>9. Awaited'
  BY StackFacts, <1>1, <1>2, SMTT(30) DEF Awaited, TypeOK, UsesAny, WaitSet, TaskRange, LinkIntegrity
<1>10. Places' /\ NoLogicError' /\ Progress'
  BY <1>2, Zenon DEF Places, NoLogicError, Progress, TypeOK, TaskRange
<1>11. Limited'
  BY <1>2, Zenon DEF Limited, InCall, TypeOK, TaskRange
<1> QED
  BY <1>3, <1>4, <1>5, <1>6, <1>7, <1>8, <1>9, <1>10, <1>11, Zenon

\* Steps of the running coroutine that leave the stack as it is.
LEMMA SameStack ==
  ASSUME UNCHANGED stack
  PROVE  Active' = Active /\ Current' = Current
BY Zenon DEF Active, Current

\* The fields of a frame, and what an update of its iterator, its AnyAwaiter or
\* its return value leaves alone.
LEMMA FrameFields ==
  ASSUME TypeOK, NEW x \in Coro
  PROVE  /\ fr[x] \in Frame
         /\ fr[x].kind \in Kinds /\ fr[x].lo \in Nat \ {0} /\ fr[x].hi \in 0..N
         /\ fr[x].it \in 0..N+1 /\ fr[x].lim \in Nat /\ fr[x].aw \subseteq Coro
         /\ fr[x].fresh \subseteq Coro
         /\ fr[x].lo <= fr[x].hi + 1 /\ fr[x].lo - 1 <= fr[x].it /\ fr[x].it <= fr[x].hi + 1
         /\ fr[x].aw \subseteq TaskRange(x) /\ TaskRange(x) \subseteq Coro
         /\ \A t \in TaskRange(x) : t \in Coro /\ Owner[t] = x
<1>1. fr[x] \in Frame
  BY Zenon DEF TypeOK
<1>2. /\ fr[x].kind \in Kinds /\ fr[x].lo \in Nat \ {0} /\ fr[x].hi \in 0..N
      /\ fr[x].it \in 0..N+1 /\ fr[x].lim \in Nat /\ fr[x].aw \subseteq Coro
      /\ fr[x].fresh \subseteq Coro
  BY <1>1, Zenon DEF Frame
<1>3. TaskRange(x) \subseteq Coro
  BY <1>2, NAssumption DEF TaskRange, Coro
<1> QED
  BY <1>1, <1>2, <1>3, NAssumption DEF TypeOK

\* Assigning to the iterator, the AnyAwaiter or the result keeps a frame a frame.
LEMMA FrameUpdate ==
  ASSUME NEW g \in Frame, NEW i \in 0..N+1, NEW S \in SUBSET Coro, NEW t \in Coro \cup {Null}
  PROVE  /\ [g EXCEPT !.it = i] \in Frame
         /\ [g EXCEPT !.it = i, !.aw = S] \in Frame
         /\ [g EXCEPT !.aw = S, !.got = t] \in Frame
BY Zenon DEF Frame

\* multi and all go from their loop of start() to their loop of co_await.
LEMMA StartDoneStep ==
  ASSUME IInv, NEW c \in Coro, StartDone(c)
  PROVE  IInv'
<1> USE DEF IInv, StartDone, Pending, done, Running
<1>1. c \in Active
  BY StackFacts, SameStack, Zenon
<1>2. /\ fr' \in [Coro -> Frame]
      /\ \A x \in Coro : x # c => fr'[x] = fr[x]
      /\ fr'[c].kind = fr[c].kind /\ fr'[c].lo = fr[c].lo /\ fr'[c].hi = fr[c].hi
      /\ fr'[c].aw = fr[c].aw
      /\ fr'[c].it = IF fr[c].kind = "multi" THEN fr[c].hi ELSE fr[c].lo
  <2> DEFINE i == IF fr[c].kind = "multi" THEN fr[c].hi ELSE fr[c].lo
  <2>1. fr' = [fr EXCEPT ![c] = [fr[c] EXCEPT !.it = i]]
    BY Zenon DEF TypeOK
  <2>2. i \in 0..N+1 /\ fr[c] \in Frame /\ fr \in [Coro -> Frame]
    BY FrameFields, NAssumption DEF TypeOK
  <2> HIDE DEF i
  <2>3. [fr[c] EXCEPT !.it = i] \in Frame
    BY <2>2, FrameUpdate, Zenon
  <2>4. /\ fr' \in [Coro -> Frame] /\ fr'[c] = [fr[c] EXCEPT !.it = i]
        /\ \A x \in Coro : x # c => fr'[x] = fr[x]
    BY <2>1, <2>2, <2>3, Zenon
  <2> QED
    BY <2>2, <2>4, Zenon DEF i, Frame
<1>3. TypeOK'
  BY <1>2, FrameFields, SMTT(60) DEF TypeOK, TaskRange, PCs
<1>4. NoReentry' /\ Callers' /\ Lifecycle'
  BY SameStack, <1>1 DEF NoReentry, Callers, TypeOK, Lifecycle
<1>5. LinkIntegrity' /\ NoLostWakeup'
  BY SameStack, <1>1, <1>2 DEF LinkIntegrity, NoLostWakeup, Suspended, WaitSet, UsesAny, TypeOK
<1>6. NoLogicError' /\ Awaited'
  BY SameStack, <1>2 DEF NoLogicError, TypeOK, Awaited, UsesAny, WaitSet, TaskRange, Places
<1>7. Places'
  BY <1>2, FrameFields, SMTT(30) DEF Places, TypeOK
<1>8. Progress'
  <2>1. fr[c].kind \in {"multi", "all"}
    BY Zenon DEF Places
  <2> QED
    BY <1>2, <2>1, FrameFields, SMTT(60) DEF Progress, TaskRange, TypeOK
<1>9. Limited'
  BY <1>2 DEF Limited, InCall, TaskRange, TypeOK, Places
<1> QED
  BY <1>3, <1>4, <1>5, <1>6, <1>8, <1>9, <1>7, Zenon

\* multi and all have one more task done, and go on to the next one.
LEMMA WaitResumeStep ==
  ASSUME IInv, NEW c \in Coro, WaitResume(c)
  PROVE  IInv'
<1> USE DEF IInv, WaitResume, Pending, done, Running
<1>1. c \in Active /\ fr[c].it \in TaskRange(c) /\ fr[c].it \in finished
  BY StackFacts, SameStack, Zenon DEF Awaited, WaitSet
<1>2. /\ fr' \in [Coro -> Frame]
      /\ \A x \in Coro : x # c => fr'[x] = fr[x]
      /\ fr'[c].kind = fr[c].kind /\ fr'[c].lo = fr[c].lo /\ fr'[c].hi = fr[c].hi
      /\ fr'[c].aw = fr[c].aw /\ fr[c].kind \in {"await", "multi", "all"}
      /\ fr'[c].it = IF fr[c].kind = "multi" THEN fr[c].it - 1 ELSE fr[c].it + 1
  <2> DEFINE i == IF fr[c].kind = "multi" THEN fr[c].it - 1 ELSE fr[c].it + 1
  <2>1. fr' = [fr EXCEPT ![c] = [fr[c] EXCEPT !.it = i]]
    BY Zenon DEF TypeOK
  <2>2. /\ i \in 0..N+1 /\ fr[c] \in Frame /\ fr \in [Coro -> Frame]
        /\ fr[c].kind \in {"await", "multi", "all"}
    <3>1. fr[c].it \in fr[c].lo..fr[c].hi /\ fr[c].lo \in Nat \ {0} /\ fr[c].hi \in 0..N
      BY <1>1, FrameFields, Zenon DEF TaskRange
    <3>2. i \in 0..N+1
      BY <3>1, NAssumption
    <3>3. fr[c].kind \in {"await", "multi", "all"}
      BY FrameFields, Zenon DEF UsesAny, Kinds
    <3> QED
      BY <3>2, <3>3, Zenon DEF TypeOK
  <2> HIDE DEF i
  <2>3. [fr[c] EXCEPT !.it = i] \in Frame
    BY <2>2, FrameUpdate, Zenon
  <2>4. /\ fr' \in [Coro -> Frame] /\ fr'[c] = [fr[c] EXCEPT !.it = i]
        /\ \A x \in Coro : x # c => fr'[x] = fr[x]
    BY <2>1, <2>2, <2>3, Zenon
  <2> QED
    BY <2>2, <2>4, Zenon DEF i, Frame
<1>3. TypeOK'
  <2>1. fr[c].it \in fr[c].lo..fr[c].hi /\ fr[c].lo \in Nat /\ fr[c].hi \in Nat
    BY <1>1, FrameFields, NAssumption DEF TaskRange
  <2>2. fr'[c].it \in fr'[c].lo - 1 .. fr'[c].hi + 1
    BY <1>2, <2>1
  <2> QED
    BY <1>2, <2>2 DEF TypeOK, TaskRange, PCs
<1>4. NoReentry' /\ Callers' /\ Lifecycle'
  BY SameStack, <1>1 DEF NoReentry, Callers, TypeOK, Lifecycle
<1>5. LinkIntegrity' /\ NoLostWakeup'
  BY SameStack, <1>1, <1>2 DEF LinkIntegrity, NoLostWakeup, Suspended, WaitSet, UsesAny, TypeOK
<1>6. NoLogicError' /\ Awaited'
  BY SameStack, <1>2 DEF NoLogicError, TypeOK, Awaited, UsesAny, WaitSet, TaskRange, Places
<1>7. Places'
  BY <1>1, <1>2, FrameFields, SMTT(60) DEF Places, TypeOK, TaskRange
<1>8. Progress'
  <2>1. fr[c].it \in Int /\ \A t \in TaskRange(c) : t \in Int
    BY <1>1, FrameFields DEF TaskRange
  <2>2. TaskRange(c)' = TaskRange(c) /\ pc'[c] = "waiting"
    BY <1>2, Zenon DEF TaskRange, TypeOK
  <2>3. \A x \in Coro : x # c => pc'[x] = pc[x] /\ fr'[x] = fr[x] /\ TaskRange(x)' = TaskRange(x)
    BY <1>2, Zenon DEF TaskRange, TypeOK
  <2>4. /\ fr[c].kind \in {"await", "all"} =>
             \A t \in TaskRange(c) : t < fr'[c].it => t \in finished
        /\ fr[c].kind = "multi" => \A t \in TaskRange(c) : t > fr'[c].it => t \in finished
    <3>1. /\ fr[c].kind \in {"await", "all"} =>
               \A t \in TaskRange(c) : t < fr[c].it => t \in finished
          /\ fr[c].kind = "multi" => \A t \in TaskRange(c) : t > fr[c].it => t \in finished
      BY Zenon DEF Progress
    <3> QED
      BY <3>1, <2>1, <1>1, <1>2
  <2> QED
    BY <2>2, <2>3, <2>4, <1>2 DEF Progress
<1>9. Limited'
  BY <1>2, SMTT(30) DEF Limited, InCall, TaskRange, TypeOK
<1> QED
  BY <1>3, <1>4, <1>5, <1>6, <1>8, <1>9, <1>7, Zenon

\* A combinator returns to the code that awaited it.
LEMMA ReturnStep ==
  ASSUME IInv, NEW c \in Coro, Return(c)
  PROVE  IInv'
<1> USE DEF IInv, Return, Pending, done, Running
<1>1. c \in Active
  BY StackFacts, SameStack, Zenon
<1>2. /\ NoFrame \in Frame /\ fr' \in [Coro -> Frame]
      /\ \A x \in Coro : x # c => fr'[x] = fr[x]
      /\ fr'[c] = NoFrame
  <2>1. NoFrame \in Frame
    BY NAssumption, SMTT(30) DEF Frame, NoFrame, Kinds
  <2> QED
    BY <2>1, ZenonT(60) DEF TypeOK
<1>3. TypeOK'
  BY <1>1, <1>2 DEF TypeOK, TaskRange, PCs, NoFrame
<1>4. NoReentry' /\ Callers' /\ Lifecycle'
  BY StackFacts, SameStack, <1>1, ZenonT(60) DEF NoReentry, Callers, TypeOK, Lifecycle
<1>5. LinkIntegrity' /\ NoLostWakeup'
  BY SameStack, <1>1, <1>2 DEF LinkIntegrity, NoLostWakeup, Suspended, WaitSet, UsesAny, TypeOK
<1>6. NoLogicError' /\ Awaited'
  BY SameStack, <1>2, SMTT(30) DEF NoLogicError, TypeOK, Awaited, UsesAny, WaitSet, TaskRange, Places
<1>7. Places'
  BY SameStack, <1>2, SMTT(30) DEF Places, TypeOK, NoFrame
<1>8. Progress'
  BY <1>1, <1>2, SMTT(30) DEF Progress, TaskRange, TypeOK
<1>9. Limited'
  BY <1>1, <1>2, ZenonT(60) DEF TaskRange, TypeOK, Limited, InCall
<1> QED
  BY <1>3, <1>4, <1>5, <1>6, <1>7, <1>8, <1>9, Zenon

-----------------------------------------------------------------------------
(* Starting and awaiting tasks *)

\* A call of start() by the running coroutine, on a task that it owns.
LEMMA StartEffect ==
  ASSUME IInv, NEW c \in Coro, NEW t \in Coro, Running(c), Owner[t] = c, start(t)
  PROVE  /\ stack' \in Seq(Coro) /\ Distinct(stack)' /\ started' = [started EXCEPT ![t] = TRUE]
         /\ \/ started[t] /\ Active' = Active /\ Current' = Current
            \/ ~started[t] /\ t \notin Active /\ Active' = Active \cup {t} /\ Current' = t
<1> USE DEF IInv, TypeOK
<1>1. CASE started[t]
  BY StackFacts, <1>1, SameStack DEF start, Distinct
<1>2. CASE ~started[t]
  <2>1. t \notin Active
    BY StackFacts, <1>2, Zenon
  <2>2. stack' = <<t>> \o stack /\ started' = [started EXCEPT ![t] = TRUE]
    BY <1>2, Zenon DEF start
  <2>3. stack' \in Seq(Coro) /\ Distinct(stack)' /\ Active' = Active \cup {t} /\ Current' = t
    BY StackFacts, <2>1, <2>2, PushEffect, Zenon
  <2> QED
    BY <1>2, <2>1, <2>2, <2>3, Zenon
<1> QED
  BY <1>1, <1>2, Zenon

\* What start() preserves, whatever the caller does to its own frame.
LEMMA StartKeeps ==
  ASSUME IInv, NEW c \in Coro, NEW t \in Coro, Running(c), Owner[t] = c, start(t),
         pc[c] \in {"body", "starting", "limiting"},
         UNCHANGED <<awaiting, finished, pc>>,
         \A x \in Coro : x # c => fr'[x] = fr[x]
  PROVE  NoReentry' /\ Lifecycle' /\ Callers' /\ LinkIntegrity' /\ NoLostWakeup' /\ NoLogicError'
<1> USE DEF IInv, Pending, done, Running
<1>1. c \in Active
  BY StackFacts, Zenon
<1>2. /\ stack' \in Seq(Coro) /\ Distinct(stack)' /\ started' = [started EXCEPT ![t] = TRUE]
      /\ \/ started[t] /\ Active' = Active /\ Current' = Current
         \/ ~started[t] /\ t \notin Active /\ Active' = Active \cup {t} /\ Current' = t
  BY StartEffect, Zenon
<1>3. NoReentry'
  BY <1>2 DEF NoReentry, Distinct, TypeOK, Lifecycle
<1>4. Lifecycle'
  BY <1>2 DEF Lifecycle, TypeOK
<1>5. Callers'
  BY <1>2 DEF Callers, TypeOK
<1>6. LinkIntegrity'
  <2> SUFFICES ASSUME NEW u \in Coro, NEW x \in Coro, u \notin finished, awaiting[u] = x
               PROVE  pc[x] = "await_resume" /\ u \in WaitSet(x)' /\ x \notin Active'
    BY Zenon DEF LinkIntegrity
  <2>1. pc[x] = "await_resume" /\ u \in WaitSet(x) /\ (x \in Active => x = c)
    BY Zenon DEF LinkIntegrity
  <2>2. x # c /\ fr'[x] = fr[x] /\ x \notin Active
    BY <2>1, Zenon
  <2>3. u \in WaitSet(x)'
    BY <2>1, <2>2, Zenon DEF WaitSet, UsesAny
  <2>4. x \notin Active'
    BY <1>2, <2>1, <2>2, Zenon DEF Lifecycle
  <2> QED
    BY <2>1, <2>3, <2>4, Zenon
<1>7. NoLostWakeup'
  <2> SUFFICES ASSUME NEW x \in Coro, pc[x] = "await_resume", x \notin Active',
                      NEW u \in WaitSet(x)'
               PROVE  started'[u] /\ u \notin finished /\ awaiting[u] = x
    BY Zenon DEF NoLostWakeup, Suspended
  <2>1. x # c /\ fr'[x] = fr[x] /\ x \notin Active
    BY <1>2, Zenon
  <2>2. u \in WaitSet(x)
    BY <2>1, Zenon DEF WaitSet, UsesAny
  <2>3. started[u] /\ u \notin finished /\ awaiting[u] = x
    BY <2>1, <2>2, Zenon DEF NoLostWakeup, Suspended
  <2> QED
    BY <1>2, <2>3 DEF TypeOK
<1>8. NoLogicError'
  BY Zenon DEF NoLogicError
<1> QED
  BY <1>3, <1>4, <1>5, <1>6, <1>7, <1>8, Zenon

\* A coroutine calls start() on one of its tasks.
LEMMA StartStep ==
  ASSUME IInv, NEW c \in Coro, NEW t \in Coro, Start(c, t)
  PROVE  IInv'
<1> USE DEF IInv, Start, UseFuel, Pending, done, Running
<1>1. NoReentry' /\ Lifecycle' /\ Callers' /\ LinkIntegrity' /\ NoLostWakeup' /\ NoLogicError'
  BY StartKeeps, Zenon
<1>2. /\ stack' \in Seq(Coro) /\ Distinct(stack)' /\ started' = [started EXCEPT ![t] = TRUE]
      /\ \/ started[t] /\ Active' = Active /\ Current' = Current
         \/ ~started[t] /\ t \notin Active /\ Active' = Active \cup {t} /\ Current' = t
  BY StartEffect, Zenon
<1>3. TypeOK'
  BY <1>2 DEF TypeOK, TaskRange
<1>4. Places' /\ Progress'
  BY ZenonT(60) DEF Places, Progress, TaskRange
<1>5. Awaited'
  BY <1>2, FrameFields, SMTT(30) DEF Awaited, UsesAny, WaitSet, TaskRange, Lifecycle, TypeOK
<1>6. Limited'
  <2>1. ASSUME NEW x \in Coro, InCall(x), fr[x].kind = "all_limit", NEW u \in fr[x].fresh,
               u >= fr[x].it
        PROVE  ~started'[u]
    <3>1. u \in TaskRange(x) /\ ~started[u] /\ x # c
      BY <2>1, Zenon DEF Limited, InCall
    <3>2. u # t /\ u \in Coro
      BY <3>1, FrameFields
    <3> QED
      BY <3>1, <3>2, <1>2 DEF TypeOK
  <2> QED
    BY <2>1, Zenon DEF Limited, InCall, TaskRange
<1> QED
  BY <1>1, <1>3, <1>4, <1>5, <1>6, Zenon

\* multi, all and any start the next task of the range.
LEMMA StartNextStep ==
  ASSUME IInv, NEW c \in Coro, StartNext(c)
  PROVE  IInv'
<1> DEFINE t == fr[c].it
           S == IF fr[c].kind = "any" THEN fr[c].aw \cup {t} ELSE fr[c].aw
<1> USE DEF IInv, Pending, done, Running
<1>1. /\ Running(c) /\ pc[c] = "starting" /\ t <= fr[c].hi /\ start(t)
      /\ fr' = [fr EXCEPT ![c].it = @ + 1, ![c].aw = S]
      /\ UNCHANGED <<awaiting, finished, pc, fuel>>
  BY Zenon DEF StartNext
<1>2. /\ t \in TaskRange(c) /\ t \in Coro /\ Owner[t] = c /\ S \subseteq TaskRange(c)
      /\ t + 1 \in 0..N+1
  <2>1. /\ fr[c].lo \in Nat \ {0} /\ fr[c].hi \in 0..N /\ t \in 0..N+1 /\ fr[c].aw \subseteq TaskRange(c)
        /\ fr[c].lo - 1 <= t /\ \A u \in TaskRange(c) : u \in Coro /\ Owner[u] = c
    BY FrameFields, Zenon
  <2>2. fr[c].lo <= t
    BY <1>1, <2>1, Zenon DEF Places
  <2> QED
    BY <1>1, <2>1, <2>2, NAssumption DEF TaskRange
<1>3. /\ fr' \in [Coro -> Frame]
      /\ \A x \in Coro : x # c => fr'[x] = fr[x]
      /\ fr'[c].kind = fr[c].kind /\ fr'[c].lo = fr[c].lo /\ fr'[c].hi = fr[c].hi
      /\ fr'[c].it = t + 1 /\ fr'[c].aw = S
  <2>1. fr' = [fr EXCEPT ![c] = [fr[c] EXCEPT !.it = t + 1, !.aw = S]]
    BY <1>1, ZenonT(60) DEF TypeOK
  <2> HIDE DEF t, S
  <2>2. [fr[c] EXCEPT !.it = t + 1, !.aw = S] \in Frame /\ fr \in [Coro -> Frame]
    BY <1>2, FrameUpdate, FrameFields, Zenon DEF TypeOK
  <2>3. /\ fr' \in [Coro -> Frame] /\ fr'[c] = [fr[c] EXCEPT !.it = t + 1, !.aw = S]
        /\ \A x \in Coro : x # c => fr'[x] = fr[x]
    BY <2>1, <2>2, Zenon
  <2> QED
    BY <2>2, <2>3, FrameFields, Zenon DEF Frame
<1>4. /\ stack' \in Seq(Coro) /\ Distinct(stack)' /\ started' = [started EXCEPT ![t] = TRUE]
      /\ \/ started[t] /\ Active' = Active /\ Current' = Current
         \/ ~started[t] /\ t \notin Active /\ Active' = Active \cup {t} /\ Current' = t
  BY <1>1, <1>2, StartEffect, Zenon
<1>5. NoReentry' /\ Lifecycle' /\ Callers' /\ LinkIntegrity' /\ NoLostWakeup' /\ NoLogicError'
  BY <1>1, <1>2, <1>3, StartKeeps, Zenon
<1> HIDE DEF t, S
<1>6. TypeOK'
  <2>1. fr'[c].it \in fr'[c].lo - 1 .. fr'[c].hi + 1
    BY <1>2, <1>3, FrameFields DEF TaskRange
  <2> QED
    BY <1>1, <1>2, <1>3, <2>1, <1>4, SMTT(60) DEF TypeOK, TaskRange
<1>7. Progress'
  BY <1>1, <1>3, Zenon DEF Progress, TaskRange
<1>8. Places'
  BY <1>1, <1>2, <1>3, FrameFields DEF Places, TaskRange
<1>9. Awaited'
  <2>1. \A x \in S : started'[x]
    BY <1>1, <1>2, <1>4, FrameFields, ZenonT(60) DEF Awaited, S, TypeOK
  <2>2. ASSUME NEW x \in Coro, x # c
        PROVE  /\ pc[x] \in {"starting", "waiting", "limiting", "await_resume"} =>
                    \A u \in fr[x].aw : started'[u]
               /\ pc[x] = "await_resume" /\ ~UsesAny(x) => fr[x].it \in TaskRange(x)
               /\ pc[x] = "await_resume" /\ x \in Active' => \E u \in WaitSet(x) : done(u)
    BY <1>4, <2>2 DEF Awaited, Lifecycle, TypeOK
  <2> QED
    BY <1>1, <1>3, <2>1, <2>2 DEF Awaited, UsesAny, WaitSet, TaskRange
<1>10. Limited'
  <2>1. fr'[c].kind # "all_limit"
    BY <1>1, <1>3, Zenon DEF Places
  <2>2. ASSUME NEW x \in Coro, x # c, InCall(x), fr[x].kind = "all_limit", NEW u \in fr[x].fresh
        PROVE  u >= fr[x].it => ~started'[u]
    <3>1. u \in TaskRange(x) /\ (u >= fr[x].it => ~started[u])
      BY <2>2, Zenon DEF Limited
    <3>2. u # t /\ u \in Coro
      BY <2>2, <3>1, <1>2, FrameFields, ZenonT(60)
    <3> QED
      BY <3>1, <3>2, <1>4, ZenonT(60) DEF TypeOK
  <2> QED
    BY <1>1, <1>3, <2>1, <2>2, ZenonT(60) DEF Limited, InCall, TaskRange
<1> QED
  BY <1>5, <1>6, <1>7, <1>9, <1>10, <1>8, Zenon

\* co_await of one task: it is done already, or the coroutine suspends and is
\* linked to it.
LEMMA AwaitTaskStep ==
  ASSUME IInv, NEW c \in Coro, AwaitTask(c)
  PROVE  IInv'
<1> DEFINE t == fr[c].it
<1> USE DEF IInv, Pending, done, Running
<1>1. /\ Running(c) /\ c \in Active /\ pc[c] = "waiting" /\ t \in TaskRange(c) /\ AwaiterBase(c, t)
      /\ pc' = [pc EXCEPT ![c] = "await_resume"] /\ UNCHANGED <<finished, fr, fuel>>
  BY StackFacts, Zenon DEF AwaitTask
<1>2. t \in Coro /\ Owner[t] = c /\ t # c /\ ~UsesAny(c) /\ WaitSet(c) = {t}
  BY <1>1, FrameFields, OwnerAssumption, SMTT(30) DEF Places, UsesAny, WaitSet, Coro
<1> HIDE DEF t
<1>3. CASE t \in finished
  <2>1. UNCHANGED <<started, awaiting, stack>> /\ Active' = Active /\ Current' = Current
    BY <1>1, <1>3, SameStack, Zenon DEF AwaiterBase
  <2>2. TypeOK'
    BY <1>1, <2>1, Zenon DEF TypeOK, TaskRange, PCs
  <2>3. NoReentry' /\ Lifecycle' /\ Callers'
    BY StackFacts, <1>1, <2>1, ZenonT(60) DEF NoReentry, Lifecycle, Callers, TypeOK
  <2>4. LinkIntegrity' /\ NoLostWakeup'
    BY <1>1, <2>1 DEF LinkIntegrity, NoLostWakeup, Suspended, WaitSet, UsesAny, TypeOK
  <2>5. Places' /\ NoLogicError'
    BY <1>1, <1>2 DEF Places, NoLogicError, TypeOK, UsesAny
  <2>6. Limited'
    BY <1>1, <1>2, <2>1, SMTT(60) DEF TypeOK, Limited, InCall, TaskRange, UsesAny
  <2>7. Progress'
    BY <1>1, <1>2, <2>1, SMTT(60) DEF Progress, TypeOK, TaskRange, UsesAny
  <2>8. Awaited'
    BY <1>1, <1>2, <1>3, <2>1, SMTT(30) DEF Awaited, UsesAny, WaitSet, TypeOK, TaskRange, t
  <2> QED
    BY <2>2, <2>3, <2>4, <2>5, <2>7, <2>8, <2>6, Zenon
<1>4. CASE t \notin finished
  <2>1. /\ awaiting' = [awaiting EXCEPT ![t] = c] /\ started' = [started EXCEPT ![t] = TRUE]
        /\ stack' = IF started[t] THEN Tail(stack) ELSE <<t>> \o Tail(stack)
    BY <1>1, <1>4, Zenon DEF AwaiterBase
  <2>2. /\ stack' \in Seq(Coro) /\ Distinct(stack)'
        /\ \/ started[t] /\ Active' = Active \ {c}
           \/ ~started[t] /\ t \notin Active /\ Active' = (Active \ {c}) \cup {t} /\ Current' = t
    <3>1. CASE started[t]
      BY StackFacts, <3>1, <2>1, <1>1, PopEffect, Zenon DEF TypeOK
    <3>2. CASE ~started[t]
      BY StackFacts, <3>2, <2>1, <1>1, <1>2, TransferEffect, ZenonT(60) DEF TypeOK
    <3> QED
      BY <3>1, <3>2, Zenon
  <2>3. TypeOK'
    BY <1>1, <1>2, <2>1, <2>2, Zenon DEF TypeOK, TaskRange, PCs
  <2>4. NoReentry'
    <3>1. \A x \in Active' : x \in Coro /\ x # c /\ (x \in Active \/ (x = t /\ ~started[t]))
      BY <1>1, <1>2, <2>2, StackFacts, Zenon
    <3>2. started'[t] /\ \A x \in Coro : (x # c => pc'[x] = pc[x]) /\ (x # t => started'[x] = started[x])
      BY <1>1, <1>2, <2>1, Zenon DEF TypeOK
    <3>3. ~started[t] => pc[t] = "body"
      BY <1>2, Zenon DEF Lifecycle
    <3>4. \A x \in Active' : started'[x] /\ x \notin finished /\ pc'[x] # "blocked"
      <4> SUFFICES ASSUME NEW x \in Active' PROVE started'[x] /\ x \notin finished /\ pc'[x] # "blocked"
        BY Zenon
      <4>1. CASE x = t /\ ~started[t]
        BY <1>4, <3>1, <3>2, <3>3, <4>1, SMTT(30)
      <4>2. CASE x \in Active
        <5>1. started[x] /\ x \notin finished /\ pc[x] # "blocked"
          BY <4>2, Zenon DEF NoReentry
        <5> QED
          BY <3>1, <3>2, <5>1, Zenon
      <4> QED
        BY <3>1, <4>1, <4>2, Zenon
    <3> QED
      BY <1>1, <2>2, <3>4, Zenon DEF NoReentry, Distinct
  <2>5. Lifecycle'
    BY <1>1, <1>2, <1>4, <2>1, <2>2, SMTT(30) DEF TypeOK, Lifecycle
  <2>6. Callers'
    BY <1>1, <1>2, <2>1, <2>2, SMTT(30) DEF TypeOK, Callers
  <2>7. c \notin Active' /\ WaitSet(c)' = {t} /\ \A x \in Coro : WaitSet(x)' = WaitSet(x)
    BY <1>1, <1>2, <2>2, Zenon DEF WaitSet, UsesAny
  <2>8. LinkIntegrity'
    <3> SUFFICES ASSUME NEW u \in Coro, NEW x \in Coro, u \notin finished, awaiting'[u] = x
                 PROVE  pc'[x] = "await_resume" /\ u \in WaitSet(x)' /\ x \notin Active'
      BY <1>1, Zenon DEF LinkIntegrity
    <3>1. CASE u = t
      BY <3>1, <2>1, <2>7, <1>1, <1>2, SMTT(30) DEF TypeOK
    <3>2. CASE u # t
      <4>1. awaiting[u] = x
        BY <3>2, <2>1, ZenonT(60) DEF TypeOK
      <4>2. pc[x] = "await_resume" /\ u \in WaitSet(x) /\ (x \in Active => x = c)
        BY <4>1, <1>1, Zenon DEF LinkIntegrity
      <4>3. x # c /\ x \notin Active
        BY <4>2, <1>1, Zenon
      <4>4. x \notin Active'
        BY <4>2, <4>3, <2>2, <1>2, Zenon DEF Lifecycle
      <4> QED
        BY <4>2, <4>3, <4>4, <1>1, <2>7, SMTT(30) DEF TypeOK
    <3> QED
      BY <3>1, <3>2, Zenon
  <2>9. NoLostWakeup'
    <3> SUFFICES ASSUME NEW x \in Coro, pc'[x] = "await_resume", x \notin Active', NEW u \in WaitSet(x)'
                 PROVE  started'[u] /\ u \notin finished /\ awaiting'[u] = x
      BY <1>1, Zenon DEF NoLostWakeup, Suspended
    <3>1. CASE x = c
      BY <3>1, <2>1, <2>7, <1>2, <1>4 DEF TypeOK
    <3>2. CASE x # c
      <4>1. pc[x] = "await_resume" /\ x \notin Active /\ u \in WaitSet(x)
        BY <3>2, <2>2, <2>7, <1>1 DEF TypeOK
      <4>2. started[u] /\ u \notin finished /\ awaiting[u] = x
        BY <4>1, Zenon DEF NoLostWakeup, Suspended
      <4>3. u # t
        BY StackFacts, <4>2, <3>2, <1>2, ZenonT(60) DEF Lifecycle
      <4> QED
        BY <4>2, <4>3, <2>1, SMTT(60) DEF TypeOK
    <3> QED
      BY <3>1, <3>2, Zenon
  <2>10. Places' /\ NoLogicError'
    BY <1>1, <1>2, SMTT(30) DEF Places, NoLogicError, TypeOK, UsesAny
  <2>11. Progress'
    BY <1>1, <1>2, SMTT(60) DEF Progress, TypeOK, TaskRange, UsesAny
  <2>12. Awaited'
    BY <1>1, <1>2, <2>1, <2>2, <2>7, SMTT(30) DEF Awaited, UsesAny, TypeOK, TaskRange, Lifecycle, t
  <2>13. Limited'
    <3>1. ASSUME NEW x \in Coro, x # c, InCall(x), fr[x].kind = "all_limit", NEW u \in fr[x].fresh
          PROVE  u >= fr[x].it => ~started'[u]
      <4>1. u \in TaskRange(x) /\ (u >= fr[x].it => ~started[u])
        BY <3>1, Zenon DEF Limited
      <4>2. u # t /\ u \in Coro
        BY <3>1, <4>1, <1>2, FrameFields, SMTT(30)
      <4> QED
        BY <4>1, <4>2, <2>1, ZenonT(60) DEF TypeOK
    <3> QED
      BY <3>1, <1>1, <1>2, SMTT(30) DEF Limited, InCall, TaskRange, UsesAny, TypeOK
  <2> QED
    BY <2>3, <2>4, <2>5, <2>6, <2>8, <2>9, <2>10, <2>11, <2>12, <2>13, Zenon
<1> QED
  BY <1>3, <1>4, Zenon

\* co_await of an AnyAwaiter: all of its tasks are started, so it does not throw;
\* when none is done the coroutine suspends and is linked to all of them.
LEMMA AwaitAnyStep ==
  ASSUME IInv, NEW c \in Coro, AwaitAny(c)
  PROVE  IInv'
<1> USE DEF IInv, Pending, done, Running
<1>1. /\ Running(c) /\ c \in Active /\ AnyAwait(c) /\ UNCHANGED <<started, finished, fr, fuel>>
      /\ pc[c] \in {"starting", "limiting"} /\ UsesAny(c) /\ WaitSet(c) = fr[c].aw
      /\ fr[c].kind = "all_limit" => pc[c] = "limiting"
  BY StackFacts, Zenon DEF AwaitAny, UsesAny, WaitSet, Places
<1>2. fr[c].aw \subseteq Coro /\ \A t \in fr[c].aw : started[t] /\ Owner[t] = c
  BY <1>1, FrameFields, Zenon DEF Awaited
<1>3. CASE \E t \in fr[c].aw : t \in finished
  <2>1. /\ pc' = [pc EXCEPT ![c] = "await_resume"] /\ UNCHANGED <<awaiting, stack>>
        /\ Active' = Active /\ Current' = Current
    <3>1. PICK o \in ReadyOutcomes(fr[c].aw) :
            /\ pc' = [pc EXCEPT ![c] = IF o = "throw" THEN "logic_error" ELSE "await_resume"]
            /\ awaiting' = [t \in Coro |-> IF o = "suspend" /\ t \in fr[c].aw THEN c
                                                                            ELSE awaiting[t]]
            /\ stack' = IF o = "suspend" THEN Tail(stack) ELSE stack
      BY <1>1, Zenon DEF AnyAwait
    <3>2. o = "ready"
      BY <3>1, <1>2, <1>3, Zenon DEF ReadyOutcomes
    <3>3. UNCHANGED stack /\ UNCHANGED awaiting /\ pc' = [pc EXCEPT ![c] = "await_resume"]
      BY <3>1, <3>2, Zenon DEF TypeOK
    <3> QED
      BY <3>3, SameStack, Zenon
  <2>2. TypeOK'
    BY <1>1, <2>1, Zenon DEF TypeOK, TaskRange, PCs
  <2>3. NoReentry' /\ Lifecycle' /\ Callers'
    <3>1. pc'[c] = "await_resume" /\ \A x \in Coro : x # c => pc'[x] = pc[x]
      BY <2>1, ZenonT(60) DEF TypeOK
    <3>2. started[c] /\ c \notin finished /\ c = Current /\ \A x \in Active : x \in Coro
      BY StackFacts, <1>1, Zenon
    <3>3. NoReentry'
      BY <1>1, <2>1, <3>1, <3>2, Zenon DEF NoReentry
    <3>4. Lifecycle'
      BY <1>1, <2>1, <3>1, <3>2, Zenon DEF Lifecycle
    <3>5. Callers'
      BY <1>1, <2>1, <3>1, <3>2, ZenonT(60) DEF Callers
    <3> QED
      BY <3>3, <3>4, <3>5, Zenon
  <2>4. LinkIntegrity' /\ NoLostWakeup'
    BY <1>1, <2>1, SMTT(30) DEF LinkIntegrity, NoLostWakeup, Suspended, WaitSet, UsesAny, TypeOK
  <2>5. Places' /\ NoLogicError'
    BY <1>1, <2>1, ZenonT(60) DEF Places, NoLogicError, TypeOK, UsesAny
  <2>6. Progress'
    BY <1>1, <2>1, SMTT(30) DEF Progress, TypeOK, TaskRange, UsesAny
  <2>7. Awaited'
    BY <1>1, <1>3, <2>1, SMTT(60) DEF Awaited, UsesAny, WaitSet, TypeOK, TaskRange
  <2>8. Limited'
    BY <1>1, <2>1, SMTT(30) DEF TypeOK, Limited, InCall, TaskRange
  <2> QED
    BY <2>2, <2>3, <2>4, <2>5, <2>6, <2>7, <2>8, Zenon
<1>4. CASE \A t \in fr[c].aw : t \notin finished
  <2>1. /\ pc' = [pc EXCEPT ![c] = "await_resume"] /\ stack' = Tail(stack)
        /\ awaiting' = [t \in Coro |-> IF t \in fr[c].aw THEN c ELSE awaiting[t]]
    BY <1>1, <1>2, <1>4, Zenon DEF AnyAwait, ReadyOutcomes
  <2>2. stack' \in Seq(Coro) /\ Distinct(stack)' /\ Active' = Active \ {c}
    BY StackFacts, <2>1, <1>1, PopEffect, Zenon DEF TypeOK
  <2>3. TypeOK'
    BY <1>1, <1>2, <2>1, <2>2, Zenon DEF TypeOK, TaskRange, PCs
  <2>4. NoReentry'
    BY StackFacts, <1>1, <2>1, <2>2, Zenon DEF NoReentry, Distinct, TypeOK
  <2>5. Lifecycle'
    BY <1>1, <1>2, <2>1, <2>2, ZenonT(60) DEF TypeOK, Lifecycle
  <2>6. Callers'
    BY <1>1, <2>1, <2>2, SMTT(30) DEF TypeOK, Callers
  <2>7. \A x \in Coro : WaitSet(x)' = WaitSet(x)
    BY <1>1, Zenon DEF WaitSet, UsesAny
  <2>8. LinkIntegrity'
    <3> SUFFICES ASSUME NEW u \in Coro, NEW x \in Coro, u \notin finished, awaiting'[u] = x
                 PROVE  pc'[x] = "await_resume" /\ u \in WaitSet(x)' /\ x \notin Active'
      BY <1>1, Zenon DEF LinkIntegrity
    <3>1. CASE u \in fr[c].aw
      BY <3>1, <2>1, <2>2, <2>7, <1>1, SMTT(30) DEF TypeOK
    <3>2. CASE u \notin fr[c].aw
      <4>1. awaiting[u] = x
        BY <3>2, <2>1, Zenon
      <4>2. pc[x] = "await_resume" /\ u \in WaitSet(x) /\ (x \in Active => x = c)
        BY <4>1, <1>1, Zenon DEF LinkIntegrity
      <4> QED
        BY <4>2, <1>1, <2>1, <2>2, <2>7 DEF TypeOK
    <3> QED
      BY <3>1, <3>2, Zenon
  <2>9. NoLostWakeup'
    <3> SUFFICES ASSUME NEW x \in Coro, pc'[x] = "await_resume", x \notin Active', NEW u \in WaitSet(x)'
                 PROVE  started'[u] /\ u \notin finished /\ awaiting'[u] = x
      BY <1>1, Zenon DEF NoLostWakeup, Suspended
    <3>1. CASE x = c
      BY <3>1, <2>1, <2>7, <1>1, <1>2, <1>4, Zenon
    <3>2. CASE x # c
      <4>1. pc[x] = "await_resume" /\ x \notin Active /\ u \in WaitSet(x)
        BY <3>2, <2>1, <2>2, <2>7 DEF TypeOK
      <4>2. started[u] /\ u \notin finished /\ awaiting[u] = x
        BY <4>1, Zenon DEF NoLostWakeup, Suspended
      <4>3. u \in Coro /\ Owner[u] = x
        BY <4>1, <4>2, FrameFields, SMTT(30) DEF WaitSet, UsesAny, Awaited
      <4> QED
        BY <4>2, <4>3, <3>2, <1>1, <1>2, <2>1, Zenon
    <3> QED
      BY <3>1, <3>2, Zenon
  <2>10. Places' /\ NoLogicError'
    <3>1. Places'
      BY <1>1, <2>1, Zenon DEF Places, TypeOK, UsesAny
    <3>2. NoLogicError'
      BY <1>1, <2>1, ZenonT(60) DEF NoLogicError, Places, TypeOK, UsesAny
    <3> QED BY <3>1, <3>2, Zenon
  <2>11. Progress'
    BY <1>1, <2>1, SMTT(60) DEF Progress, TypeOK, TaskRange, UsesAny
  <2>12. Awaited'
    BY <1>1, <2>1, <2>2, <2>7, SMTT(60) DEF Awaited, UsesAny, TypeOK, TaskRange
  <2>13. Limited'
    BY <1>1, <2>1 DEF TypeOK, Limited, InCall, TaskRange
  <2> QED
    BY <2>3, <2>4, <2>5, <2>6, <2>8, <2>9, <2>10, <2>11, <2>12, <2>13, Zenon
<1> QED
  BY <1>3, <1>4, Zenon

-----------------------------------------------------------------------------
(* Steps that change an AnyAwaiter *)

\* A coroutine enters a combinator, which gets a fresh frame.
LEMMA CallStep ==
  ASSUME IInv, NEW c \in Coro, NEW kind \in Kinds, NEW r \in Ranges(c), NEW lim \in Limits,
         Call(c, kind, r[1], r[2], lim)
  PROVE  IInv'
<1> DEFINE f == fr'[c]
<1> USE DEF IInv, Call, UseFuel, Pending, done, Running
<1>1. c \in Active
  BY StackFacts, SameStack, Zenon
<1>2. /\ r[1] \in Nat \ {0} /\ r[2] \in 0..N /\ r[1] - 1 <= r[2] + 1 /\ r[1] <= r[2] + 1
      /\ \A t \in r[1]..r[2] : t \in Coro /\ Owner[t] = c
  BY NAssumption DEF Ranges, Coro
<1>3. /\ f = [kind |-> kind, lo |-> r[1], hi |-> r[2], it |-> r[1], aw |-> {},
              lim |-> IF kind = "all_limit" THEN lim ELSE 0,
              fresh |-> {t \in r[1]..r[2] : ~started[t]}, got |-> Null]
      /\ \A x \in Coro : x # c => fr'[x] = fr[x]
  BY ZenonT(60) DEF TypeOK
<1>4. f \in Frame
  <2>1. lim \in Nat
    BY LimitsAssumption, Zenon
  <2>2. {t \in r[1]..r[2] : ~started[t]} \in SUBSET Coro
    BY <1>2, Zenon
  <2> QED
    BY <1>2, <1>3, <2>1, <2>2, NAssumption DEF Frame
<1> HIDE DEF f
<1>5. fr' \in [Coro -> Frame]
  BY <1>3, <1>4, Zenon DEF TypeOK, f
<1>6. TypeOK'
  BY <1>2, <1>3, <1>4, <1>5, SMTT(30) DEF TypeOK, TaskRange, PCs, f
<1>7. /\ pc'[c] \in {"waiting", "limiting", "starting"}
      /\ pc'[c] = "waiting" => kind = "await"
      /\ pc'[c] = "limiting" => kind = "all_limit"
      /\ pc'[c] = "starting" => kind \in {"multi", "all", "any"}
      /\ \A x \in Coro : x # c => pc'[x] = pc[x]
  BY ZenonT(60) DEF TypeOK, Kinds
<1>8. NoReentry' /\ Callers'
  BY SameStack, <1>7 DEF NoReentry, Callers, TypeOK
<1>9. Lifecycle'
  BY StackFacts, SameStack, <1>1, <1>7, ZenonT(60) DEF Lifecycle
<1>10. LinkIntegrity' /\ NoLostWakeup'
  BY SameStack, <1>1, <1>3, <1>7, SMTT(30) DEF LinkIntegrity, NoLostWakeup, Suspended, WaitSet, UsesAny, TypeOK
<1>11. Places' /\ NoLogicError'
  BY <1>2, <1>3, <1>7 DEF Places, NoLogicError, f
<1>12. Awaited'
  BY SameStack, <1>3, <1>7, SMTT(30) DEF Awaited, UsesAny, WaitSet, TaskRange, f
<1>13. Progress'
  BY <1>2, <1>3, <1>7, SMTT(30) DEF Progress, TaskRange, f
<1>14. Limited'
  <2> SUFFICES ASSUME NEW x \in Coro, InCall(x)', fr'[x].kind = "all_limit"
               PROVE  /\ Cardinality(fr'[x].aw) <= fr'[x].lim
                      /\ \A t \in fr'[x].fresh :
                           /\ t \in TaskRange(x)'
                           /\ t >= fr'[x].it => ~started'[t]
                           /\ t < fr'[x].it => t \in finished' \/ t \in fr'[x].aw
    BY Zenon DEF Limited
  <2>1. CASE x = c
    <3>1. Cardinality({}) = 0 /\ lim \in Nat
      BY FS_EmptySet, LimitsAssumption, Zenon
    <3>2. fr'[x].aw = {} /\ fr'[x].lim \in Nat
      BY <2>1, <3>1, <1>3 DEF f
    <3>3. \A t \in fr'[x].fresh : t \in r[1]..r[2] /\ ~started[t]
      BY <2>1, <1>3 DEF f
    <3>4. TaskRange(x)' = r[1]..r[2] /\ fr'[x].it = r[1]
      BY <2>1, <1>3 DEF f, TaskRange
    <3>5. Cardinality(fr'[x].aw) <= fr'[x].lim
      <4>1. Cardinality(fr'[x].aw) = 0
        BY <3>1, <3>2, Zenon
      <4> QED
        BY <4>1, <3>2
    <3>6. ASSUME NEW t \in fr'[x].fresh
          PROVE  t \in TaskRange(x)' /\ ~started'[t] /\ ~(t < fr'[x].it)
      <4>1. t \in r[1]..r[2] /\ ~started[t]
        BY <3>3, Zenon
      <4>2. started' = started
        BY Zenon
      <4> QED
        BY <4>1, <4>2, <3>4, <1>2
    <3> QED
      BY <3>5, <3>6, Zenon
  <2>2. CASE x # c
    BY <2>2, <1>3, <1>7, Zenon DEF Limited, InCall, TaskRange
  <2> QED
    BY <2>1, <2>2, Zenon
<1> QED
  BY <1>6, <1>8, <1>9, <1>10, <1>11, <1>12, <1>13, <1>14, Zenon

\* The AnyAwaiter of a combinator is a finite set.
LEMMA AwFinite ==
  ASSUME TypeOK, NEW x \in Coro
  PROVE  IsFiniteSet(fr[x].aw) /\ Cardinality(fr[x].aw) \in Nat
<1>1. fr[x].aw \subseteq 1..N
  BY FrameFields, Zenon DEF Coro
<1>2. IsFiniteSet(1..N)
  BY FS_Interval, NAssumption
<1>3. IsFiniteSet(fr[x].aw)
  BY <1>1, <1>2, FS_Subset, Zenon
<1> QED
  BY <1>3, FS_CardinalityType, Zenon

\* all_limit starts the next task: there was room for it in the AnyAwaiter.
LEMMA LimitStartStep ==
  ASSUME IInv, NEW c \in Coro, LimitStart(c)
  PROVE  IInv'
<1> DEFINE t == fr[c].it
           S == fr[c].aw \cup {t}
<1> USE DEF IInv, Pending, done, Running
<1>1. /\ Running(c) /\ pc[c] = "limiting" /\ t <= fr[c].hi /\ start(t)
      /\ Cardinality(fr[c].aw) < fr[c].lim
      /\ fr' = [fr EXCEPT ![c].it = @ + 1, ![c].aw = S]
      /\ UNCHANGED <<awaiting, finished, pc, fuel>>
  BY Zenon DEF LimitStart
<1>2. fr[c].kind = "all_limit" /\ fr[c].lo <= t
  BY <1>1, Zenon DEF Places
<1>3. /\ t \in TaskRange(c) /\ t \in Coro /\ Owner[t] = c /\ S \subseteq TaskRange(c)
      /\ t + 1 \in 0..N+1
  BY <1>1, <1>2, FrameFields, NAssumption DEF TaskRange
<1>4. /\ fr' \in [Coro -> Frame]
      /\ \A x \in Coro : x # c => fr'[x] = fr[x]
      /\ fr'[c].kind = fr[c].kind /\ fr'[c].lo = fr[c].lo /\ fr'[c].hi = fr[c].hi
      /\ fr'[c].it = t + 1 /\ fr'[c].aw = S /\ fr'[c].lim = fr[c].lim
      /\ fr'[c].fresh = fr[c].fresh
  <2>1. fr' = [fr EXCEPT ![c] = [fr[c] EXCEPT !.it = t + 1, !.aw = S]]
    BY <1>1, ZenonT(60) DEF TypeOK
  <2> HIDE DEF t, S
  <2>2. [fr[c] EXCEPT !.it = t + 1, !.aw = S] \in Frame /\ fr \in [Coro -> Frame]
    BY <1>3, FrameUpdate, FrameFields, Zenon DEF TypeOK
  <2>3. /\ fr' \in [Coro -> Frame] /\ fr'[c] = [fr[c] EXCEPT !.it = t + 1, !.aw = S]
        /\ \A x \in Coro : x # c => fr'[x] = fr[x]
    BY <2>1, <2>2, Zenon
  <2> QED
    BY <2>2, <2>3, FrameFields, Zenon DEF Frame
<1>5. /\ stack' \in Seq(Coro) /\ Distinct(stack)' /\ started' = [started EXCEPT ![t] = TRUE]
      /\ \/ started[t] /\ Active' = Active /\ Current' = Current
         \/ ~started[t] /\ t \notin Active /\ Active' = Active \cup {t} /\ Current' = t
  BY <1>1, <1>3, StartEffect, Zenon
<1>6. NoReentry' /\ Lifecycle' /\ Callers' /\ LinkIntegrity' /\ NoLostWakeup' /\ NoLogicError'
  BY <1>1, <1>3, <1>4, StartKeeps, ZenonT(60)
<1> HIDE DEF t
<1>7. TypeOK'
  <2>1. fr'[c].it \in fr'[c].lo - 1 .. fr'[c].hi + 1
    BY <1>3, <1>4, FrameFields, SMTT(60) DEF TaskRange
  <2> QED
    BY <1>1, <1>3, <1>4, <1>5, <2>1, SMTT(60) DEF TypeOK, TaskRange
<1>8. Places'
  BY <1>1, <1>2, <1>3, <1>4, FrameFields, SMTT(60) DEF Places, TaskRange
<1>9. Progress'
  <2>1. \A u \in TaskRange(c) : u < t + 1 => u \in finished \/ u \in S
    <3> SUFFICES ASSUME NEW u \in TaskRange(c), u < t + 1, u # t  PROVE u \in finished \/ u \in S
      BY Zenon
    <3>1. u < t
      BY <1>3 DEF TaskRange
    <3> QED
      BY <3>1, <1>1, <1>2, Zenon DEF Progress, t
  <2>2. TaskRange(c)' = TaskRange(c)
    BY <1>4, Zenon DEF TaskRange
  <2> QED
    BY <1>1, <1>2, <1>4, <2>1, <2>2, SMTT(60) DEF Progress, TaskRange
<1>10. Awaited'
  <2>1. \A x \in S : started'[x]
    BY <1>1, <1>3, <1>5, FrameFields, ZenonT(60) DEF Awaited, TypeOK
  <2>2. ASSUME NEW x \in Coro, x # c
        PROVE  /\ pc[x] \in {"starting", "waiting", "limiting", "await_resume"} =>
                    \A u \in fr[x].aw : started'[u]
               /\ pc[x] = "await_resume" /\ ~UsesAny(x) => fr[x].it \in TaskRange(x)
               /\ pc[x] = "await_resume" /\ x \in Active' => \E u \in WaitSet(x) : done(u)
    BY <1>5, <2>2 DEF Awaited, Lifecycle, TypeOK
  <2> QED
    BY <1>1, <1>4, <2>1, <2>2, SMTT(30) DEF Awaited, UsesAny, WaitSet, TaskRange
<1>11. Limited'
  <2>1. Cardinality(S) <= fr[c].lim
    <3>1. Cardinality(S) = IF t \in fr[c].aw THEN Cardinality(fr[c].aw) ELSE Cardinality(fr[c].aw) + 1
      BY AwFinite, FS_AddElement, Zenon
    <3> QED
      BY <3>1, <1>1, AwFinite, FrameFields
  <2>2. ASSUME NEW u \in fr[c].fresh
        PROVE  /\ u \in TaskRange(c)
               /\ u >= t + 1 => ~started'[u]
               /\ u < t + 1 => u \in finished \/ u \in S
    <3>1. /\ u \in TaskRange(c) /\ (u >= t => ~started[u])
          /\ u < t => u \in finished \/ u \in fr[c].aw
      BY <1>1, <1>2, ZenonT(60) DEF Limited, InCall, t
    <3>2. u \in Coro /\ u \in Int /\ t \in Int
      BY <3>1, <1>3, FrameFields, SMTT(30) DEF TaskRange
    <3>3. u >= t + 1 => ~started'[u]
      BY <3>1, <3>2, <1>3, <1>5 DEF TypeOK
    <3>4. u < t + 1 => u < t \/ u = t
      BY <3>2
    <3> QED
      BY <3>1, <3>3, <3>4, Zenon
  <2>3. ASSUME NEW x \in Coro, x # c, InCall(x), fr[x].kind = "all_limit", NEW u \in fr[x].fresh
        PROVE  u >= fr[x].it => ~started'[u]
    <3>1. u \in TaskRange(x) /\ (u >= fr[x].it => ~started[u])
      BY <2>3, Zenon DEF Limited
    <3>2. u # t /\ u \in Coro
      BY <2>3, <3>1, <1>3, FrameFields, ZenonT(60)
    <3> QED
      BY <3>1, <3>2, <1>5, ZenonT(60) DEF TypeOK
  <2>4. TaskRange(c)' = TaskRange(c)
    BY <1>4, Zenon DEF TaskRange
  <2> HIDE DEF S
  <2> SUFFICES ASSUME NEW x \in Coro, InCall(x), fr'[x].kind = "all_limit"
               PROVE  /\ Cardinality(fr'[x].aw) <= fr'[x].lim
                      /\ \A u \in fr'[x].fresh :
                           /\ u \in TaskRange(x)'
                           /\ u >= fr'[x].it => ~started'[u]
                           /\ u < fr'[x].it => u \in finished \/ u \in fr'[x].aw
    BY <1>1, Zenon DEF Limited, InCall
  <2>5. CASE x = c
    <3>1. Cardinality(fr'[x].aw) <= fr'[x].lim
      <4>1. fr'[x].aw = S /\ fr'[x].lim = fr[c].lim
        BY <1>4, <2>5, Zenon
      <4>2. Cardinality(fr'[x].aw) = Cardinality(S)
        BY <4>1, Zenon
      <4> QED
        BY <4>1, <4>2, <2>1, Zenon
    <3> QED
      BY <3>1, <2>2, <2>4, <2>5, <1>4, Zenon
  <2>6. CASE x # c
    BY <2>3, <2>6, <1>4, Zenon DEF Limited, TaskRange
  <2> QED
    BY <2>5, <2>6, Zenon
<1> QED
  BY <1>6, <1>7, <1>8, <1>9, <1>10, <1>11, Zenon

\* AnyAwaiter::await_resume: some task is done, so it does not throw; no link to
\* this coroutine is left in the tasks that go on running.
LEMMA AnyResumeStep ==
  ASSUME IInv, NEW c \in Coro, AnyResume(c)
  PROVE  IInv'
<1> DEFINE D == {t \in fr[c].aw : t \in finished}
           S == fr[c].aw \ D
<1> USE DEF IInv, Pending, done, Running
<1>1. /\ Running(c) /\ c \in Active /\ pc[c] = "await_resume" /\ UsesAny(c) /\ WaitSet(c) = fr[c].aw
      /\ UNCHANGED <<started, finished, stack, fuel>>
      /\ awaiting' = [t \in Coro |-> IF t \in S THEN Null ELSE awaiting[t]]
      /\ Active' = Active /\ Current' = Current
  BY StackFacts, SameStack, ZenonT(60) DEF AnyResume, WaitSet
<1>2. D # {} /\ fr[c].aw \subseteq TaskRange(c) /\ fr[c].aw \subseteq Coro
  BY <1>1, FrameFields DEF Awaited
<1>3. pc' = [pc EXCEPT ![c] = IF fr[c].kind = "any" THEN "returning" ELSE "limiting"]
  BY <1>2, Zenon DEF AnyResume
<1>4. PICK ret \in D : fr' = [fr EXCEPT ![c].aw = @ \ D, ![c].got = ret]
  BY <1>2, Zenon DEF AnyResume
<1>5. /\ fr' \in [Coro -> Frame]
      /\ \A x \in Coro : x # c => fr'[x] = fr[x]
      /\ fr'[c].kind = fr[c].kind /\ fr'[c].lo = fr[c].lo /\ fr'[c].hi = fr[c].hi
      /\ fr'[c].it = fr[c].it /\ fr'[c].aw = S /\ fr'[c].lim = fr[c].lim
      /\ fr'[c].fresh = fr[c].fresh /\ fr'[c].got = ret
  <2>1. fr' = [fr EXCEPT ![c] = [fr[c] EXCEPT !.aw = S, !.got = ret]]
    BY <1>4, ZenonT(60) DEF TypeOK
  <2>2. S \subseteq Coro /\ ret \in Coro
    BY <1>2, <1>4, Zenon
  <2> HIDE DEF D, S
  <2>3. [fr[c] EXCEPT !.aw = S, !.got = ret] \in Frame /\ fr \in [Coro -> Frame]
    BY <2>2, FrameUpdate, FrameFields, Zenon DEF TypeOK
  <2>4. /\ fr' \in [Coro -> Frame] /\ fr'[c] = [fr[c] EXCEPT !.aw = S, !.got = ret]
        /\ \A x \in Coro : x # c => fr'[x] = fr[x]
    BY <2>1, <2>3, Zenon
  <2> QED
    BY <2>3, <2>4, FrameFields, Zenon DEF Frame
<1>6. ret \in TaskRange(c) /\ ret \in finished /\ S \subseteq fr[c].aw
      /\ (\A u \in fr[c].aw : u \in finished \/ u \in S)
      /\ (\A u \in S : u \notin finished)
  BY <1>2, <1>4, Zenon
<1> HIDE DEF D, S
<1>7. /\ TaskRange(c)' = TaskRange(c)
      /\ \A x \in Coro : x # c => WaitSet(x)' = WaitSet(x)
  BY <1>5, Zenon DEF TaskRange, WaitSet, UsesAny
<1>8. TypeOK'
  <2>1. awaiting' \in [Coro -> Coro \cup {Null}] /\ pc' \in [Coro -> PCs]
    BY <1>1, <1>3, Zenon DEF TypeOK, PCs
  <2>2. fr'[c].aw \subseteq TaskRange(c)'
    BY <1>2, <1>5, <1>6, <1>7, Zenon
  <2>3. \A x \in Coro : x # c => TaskRange(x)' = TaskRange(x)
    BY <1>5, ZenonT(60) DEF TaskRange
  <2> QED
    <3> SUFFICES ASSUME NEW x \in Coro
                 PROVE  /\ fr'[x].lo <= fr'[x].hi + 1
                        /\ fr'[x].it \in fr'[x].lo - 1 .. fr'[x].hi + 1
                        /\ fr'[x].aw \subseteq TaskRange(x)'
                        /\ \A t \in TaskRange(x)' : Owner[t] = x
      BY <1>1, <1>5, <2>1, Zenon DEF TypeOK
    <3>1. CASE x = c
      BY <3>1, <1>5, <1>7, <2>2, SMTT(60) DEF TypeOK
    <3>2. CASE x # c
      BY <3>2, <1>5, <2>3, SMTT(30) DEF TypeOK
    <3> QED
      BY <3>1, <3>2, Zenon
<1>9. NoReentry' /\ Lifecycle' /\ Callers'
  BY <1>1, <1>3, SMTT(60) DEF NoReentry, Lifecycle, Callers, TypeOK
<1>10. Places' /\ NoLogicError'
  BY <1>1, <1>3, <1>5, SMTT(30) DEF Places, NoLogicError, TypeOK, UsesAny
<1>11. LinkIntegrity'
  <2> SUFFICES ASSUME NEW u \in Coro, NEW x \in Coro, u \notin finished, awaiting'[u] = x
               PROVE  pc'[x] = "await_resume" /\ u \in WaitSet(x)' /\ (x \in Active => x = c)
    BY <1>1, Zenon DEF LinkIntegrity
  <2>1. awaiting[u] = x /\ u \notin S
    BY <1>1 DEF Coro, Null
  <2>2. pc[x] = "await_resume" /\ u \in WaitSet(x) /\ (x \in Active => x = c)
    BY <2>1, <1>1, Zenon DEF LinkIntegrity
  <2>3. x # c
    BY <2>1, <2>2, <1>1, <1>6, Zenon
  <2> QED
    BY <2>2, <2>3, <1>3, <1>7, ZenonT(60) DEF TypeOK
<1>12. NoLostWakeup'
  <2> SUFFICES ASSUME NEW x \in Coro, pc'[x] = "await_resume", x \notin Active, NEW u \in WaitSet(x)'
               PROVE  started[u] /\ u \notin finished /\ awaiting'[u] = x
    BY <1>1, Zenon DEF NoLostWakeup, Suspended
  <2>1. x # c /\ pc[x] = "await_resume" /\ u \in WaitSet(x)
    BY <1>1, <1>3, <1>7, ZenonT(60) DEF TypeOK
  <2>2. started[u] /\ u \notin finished /\ awaiting[u] = x
    BY <2>1, Zenon DEF NoLostWakeup, Suspended
  <2>3. u \in Coro /\ Owner[u] = x
    BY <2>1, FrameFields, SMTT(60) DEF WaitSet, UsesAny, Awaited
  <2>4. u \notin S
    BY <2>1, <2>3, <1>2, <1>6, FrameFields, ZenonT(60)
  <2> QED
    BY <2>2, <2>3, <2>4, <1>1, Zenon
<1>13. Awaited'
  BY <1>1, <1>3, <1>5, <1>6, <1>7, SMTT(60) DEF Awaited, UsesAny, TypeOK, TaskRange
<1>14. Progress'
  <2>1. fr[c].kind = "all_limit" =>
          \A t \in TaskRange(c) : t < fr[c].it => t \in finished \/ t \in S
    BY <1>1, <1>6, Zenon DEF Progress
  <2>2. \A x \in Coro : x # c => TaskRange(x)' = TaskRange(x)
    BY <1>5, Zenon DEF TaskRange
  <2>3. fr[c].kind \in {"any", "all_limit"}
    BY <1>1, Zenon DEF UsesAny
  <2> SUFFICES ASSUME NEW x \in Coro
               PROVE  /\ pc'[x] \in {"waiting", "await_resume"} /\ fr'[x].kind \in {"await", "all"} =>
                           \A t \in TaskRange(x)' : t < fr'[x].it => t \in finished
                      /\ pc'[x] \in {"waiting", "await_resume"} /\ fr'[x].kind = "multi" =>
                           \A t \in TaskRange(x)' : t > fr'[x].it => t \in finished
                      /\ pc'[x] \in {"limiting", "await_resume"} /\ fr'[x].kind = "all_limit" =>
                           \A t \in TaskRange(x)' : t < fr'[x].it => t \in finished \/ t \in fr'[x].aw
                      /\ pc'[x] = "returning" => fr'[x].got \in TaskRange(x)' /\ fr'[x].got \in finished
    BY <1>1, ZenonT(60) DEF Progress
  <2>4. CASE x = c
    BY <2>1, <2>3, <2>4, <1>3, <1>5, <1>6, <1>7, SMTT(60) DEF TypeOK
  <2>5. CASE x # c
    BY <2>2, <2>5, <1>3, <1>5, SMTT(30) DEF Progress, TypeOK
  <2> QED
    BY <2>4, <2>5, Zenon
<1>15. Limited'
  <2>1. Cardinality(S) <= Cardinality(fr[c].aw) /\ Cardinality(S) \in Nat /\ Cardinality(fr[c].aw) \in Nat
    BY <1>6, AwFinite, FS_Subset, FS_CardinalityType, Zenon
  <2> SUFFICES ASSUME NEW x \in Coro, InCall(x)', fr'[x].kind = "all_limit"
               PROVE  /\ Cardinality(fr'[x].aw) <= fr'[x].lim
                      /\ \A u \in fr'[x].fresh :
                           /\ u \in TaskRange(x)'
                           /\ u >= fr'[x].it => ~started[u]
                           /\ u < fr'[x].it => u \in finished \/ u \in fr'[x].aw
    BY <1>1, Zenon DEF Limited
  <2>2. CASE x = c
    <3>1. InCall(c) /\ fr[c].kind = "all_limit" /\ fr[c].lim \in Nat
      BY <1>1, <1>5, <2>2, FrameFields, Zenon DEF InCall
    <3>2. /\ Cardinality(fr[c].aw) <= fr[c].lim
          /\ \A u \in fr[c].fresh :
               /\ u \in TaskRange(c)
               /\ u >= fr[c].it => ~started[u]
               /\ u < fr[c].it => u \in finished \/ u \in fr[c].aw
      BY <3>1, Zenon DEF Limited
    <3>3. Cardinality(fr'[x].aw) = Cardinality(S)
      BY <1>5, <2>2, ZenonT(60)
    <3>4. Cardinality(fr'[x].aw) <= fr'[x].lim
      BY <3>1, <3>2, <3>3, <2>1, <2>2, <1>5, SMTT(30)
    <3> QED
      BY <3>2, <3>4, <2>2, <1>5, <1>6, <1>7, Zenon
  <2>3. CASE x # c
    <3>1. fr'[x] = fr[x] /\ pc'[x] = pc[x]
      BY <2>3, <1>3, <1>5, Zenon DEF TypeOK
    <3>2. InCall(x) /\ TaskRange(x)' = TaskRange(x)
      BY <3>1, Zenon DEF InCall, TaskRange
    <3> QED
      BY <3>1, <3>2, Zenon DEF Limited
  <2> QED
    BY <2>2, <2>3, Zenon
<1> QED
  BY <1>8, <1>9, <1>10, <1>11, <1>12, <1>13, <1>14, <1>15, ZenonT(60)

-----------------------------------------------------------------------------
(* The theorems *)

\* Every step of a coroutine, of a combinator or of the event loop keeps the
\* inductive invariant.
LEMMA NextIInv ==
  ASSUME IInv, [Next]_vars
  PROVE  IInv'
<1>1. CASE UNCHANGED vars
  <2>1. Active' = Active /\ Current' = Current
    BY <1>1, SameStack, Zenon DEF vars
  <2> USE <1>1, <2>1 DEF vars, IInv, Pending, done, Running
  <2>2. TypeOK' /\ NoReentry' /\ Lifecycle' /\ Callers' /\ Places' /\ NoLogicError'
    BY Zenon DEF TypeOK, NoReentry, Lifecycle, Callers, Places, NoLogicError, TaskRange
  <2>3. LinkIntegrity' /\ NoLostWakeup' /\ Awaited'
    BY SMTT(30) DEF LinkIntegrity, NoLostWakeup, Awaited, Suspended, WaitSet, UsesAny, TaskRange
  <2>4. Progress' /\ Limited'
    BY Zenon DEF Progress, Limited, InCall, TaskRange
  <2> QED
    BY <2>2, <2>3, <2>4, Zenon
<1>2. CASE Next
  <2>1. PICK c \in Coro : Body(c) \/ Combinator(c)
    BY <1>2, Zenon DEF Next
  <2>2. CASE Body(c)
    BY <2>2, SpawnStep, BlockStep, WakeStep, StartStep, FinishStep, CallStep, Zenon DEF Body
  <2>3. CASE Combinator(c)
    BY Zenon, <2>3, StartNextStep, StartDoneStep, AwaitTaskStep, WaitResumeStep, LimitStartStep,
       AwaitAnyStep, AnyResumeStep, ReturnStep DEF Combinator
  <2> QED
    BY <2>1, <2>2, <2>3, Zenon
<1> QED
  BY <1>1, <1>2, Zenon

\* The inductive invariant holds for every number of coroutines, every
\* ownership tree, any amount of code in the bodies and every parallelism.
THEOREM Invariant == Spec => []IInv
BY InitIInv, NextIInv, PTL DEF Spec

\* Type correctness of the tasks and of the combinators' frames.
THEOREM TypeCorrect == Spec => []TypeOK
<1>1. IInv => TypeOK
  BY Zenon DEF IInv
<1> QED
  BY <1>1, Invariant, PTL

\* FinalAwaiter, start() and the event loop never resume a coroutine that is
\* running, done or not started.
THEOREM NeverReentered == Spec => []NoReentry
<1>1. IInv => NoReentry
  BY Zenon DEF IInv
<1> QED
  BY <1>1, Invariant, PTL

\* A task that is not done is linked only to a coroutine in a co_await of it.
THEOREM LinksGood == Spec => []LinkIntegrity
<1>1. IInv => LinkIntegrity
  BY Zenon DEF IInv
<1> QED
  BY <1>1, Invariant, PTL

\* Whoever is suspended on tasks is linked to all of them, and none is done.
THEOREM WakeupsKept == Spec => []NoLostWakeup
<1>1. IInv => NoLostWakeup
  BY Zenon DEF IInv
<1> QED
  BY <1>1, Invariant, PTL

\* any and all_limit never run into a logic_error of AnyAwaiter.
THEOREM LogicErrorFree == Spec => []NoLogicError
<1>1. IInv => NoLogicError
  BY Zenon DEF IInv
<1> QED
  BY <1>1, Invariant, PTL

\* all_limit keeps to its parallelism: the tasks it started that still run are
\* in its AnyAwaiter, which LimitStart never makes larger than the limit.
THEOREM ParallelismBounded == Spec => []LimitRespected
<1>1. IInv => LimitRespected
  <2> SUFFICES ASSUME IInv, NEW c \in Coro, InCall(c), fr[c].kind = "all_limit"
               PROVE  Cardinality({t \in fr[c].fresh : Pending(t)}) <= fr[c].lim
    BY Zenon DEF LimitRespected
  <2> DEFINE R == {t \in fr[c].fresh : Pending(t)}
  <2>1. TypeOK /\ fr[c].fresh \subseteq Coro /\ fr[c].it \in Int /\ fr[c].lim \in Nat
    BY FrameFields DEF IInv
  <2>2. /\ Cardinality(fr[c].aw) <= fr[c].lim
        /\ \A t \in fr[c].fresh : /\ t >= fr[c].it => ~started[t]
                                  /\ t < fr[c].it => done(t) \/ t \in fr[c].aw
    BY Zenon DEF IInv, Limited
  <2>3. \A t \in fr[c].fresh : t >= fr[c].it \/ t < fr[c].it
    BY <2>1 DEF Coro
  <2>4. R \subseteq fr[c].aw
    BY <2>2, <2>3, Zenon DEF Pending
  <2> HIDE DEF R
  <2>5. Cardinality(R) <= Cardinality(fr[c].aw) /\ Cardinality(R) \in Nat /\ Cardinality(fr[c].aw) \in Nat
    BY <2>1, <2>4, AwFinite, FS_Subset, FS_CardinalityType, Zenon
  <2>6. Cardinality(R) <= fr[c].lim
    BY <2>1, <2>2, <2>5
  <2> QED
    BY <2>6, Zenon DEF R
<1> QED
  BY <1>1, Invariant, PTL

\* A combinator returns only when all its tasks (any: the one it returns) are
\* done.
THEOREM ReturnsOnlyWhenDone == Spec => ReturnsWhenDone
<1>1. IInv /\ [Next]_vars => [\A c \in Coro : InCall(c) /\ pc'[c] = "body" => Returns(c)]_vars
  <2> SUFFICES ASSUME IInv, Next, NEW c \in Coro, InCall(c), pc'[c] = "body"
               PROVE  Returns(c)
    BY Zenon DEF vars
  <2>1. PICK d \in Coro : Body(d) \/ Combinator(d)
    BY Zenon DEF Next
  <2>2. pc \in [Coro -> PCs] /\ pc[c] # "body" /\ pc[c] # "blocked"
    BY Zenon DEF IInv, TypeOK, InCall
  <2>3. Return(c)
    <3>1. CASE Body(d)
      BY <3>1, <2>2, Zenon DEF Body, Spawn, Block, Wake, Start, Finish, Call, FinalAwaiter
    <3>2. CASE Combinator(d)
      <4>1. CASE AwaitAny(d)
        BY <4>1, <2>2, Zenon DEF AwaitAny, AnyAwait
      <4>2. CASE Return(d)
        BY <4>2, <2>2, Zenon DEF Return
      <4> QED
        BY <4>1, <4>2, <3>2, <2>2, Zenon
        DEF Combinator, StartNext, StartDone, AwaitTask, WaitResume, LimitStart, AnyResume
    <3> QED
      BY <2>1, <3>1, <3>2, Zenon
  <2>4. /\ fr[c].lo \in Nat /\ fr[c].hi \in Nat /\ fr[c].it \in Int /\ fr[c].lo <= fr[c].hi + 1
        /\ fr[c].lo - 1 <= fr[c].it /\ fr[c].it <= fr[c].hi + 1
    BY FrameFields DEF IInv
  <2>5. CASE pc[c] = "waiting" /\ fr[c].it \notin TaskRange(c)
    <3>1. /\ fr[c].kind \in {"await", "multi", "all"}
          /\ IF fr[c].kind = "multi" THEN fr[c].it <= fr[c].hi ELSE fr[c].it >= fr[c].lo
      BY <2>5, Zenon DEF IInv, Places
    <3>2. fr[c].it = fr[c].lo - 1 \/ fr[c].it = fr[c].hi + 1
      BY <2>4, <2>5, SMTT(60) DEF TaskRange
    <3>3. CASE fr[c].kind = "multi"
      BY <3>1, <3>2, <3>3, <2>4, <2>5, SMTT(60) DEF IInv, Progress, Returns, TaskRange
    <3>4. CASE fr[c].kind # "multi"
      BY <3>1, <3>2, <3>4, <2>4, <2>5, SMTT(60) DEF IInv, Progress, Returns, TaskRange
    <3> QED
      BY <3>3, <3>4, Zenon
  <2>6. CASE pc[c] = "limiting" /\ fr[c].it > fr[c].hi /\ fr[c].aw = {}
    BY <2>4, <2>6, SMTT(30) DEF IInv, Progress, Places, Returns, TaskRange
  <2>7. CASE pc[c] = "returning"
    BY <2>7, Zenon DEF IInv, Progress, Places, Returns
  <2> QED
    BY <2>3, <2>5, <2>6, <2>7, Zenon DEF Return
<1> QED
  BY <1>1, Invariant, PTL DEF Spec, ReturnsWhenDone
=============================================================================
