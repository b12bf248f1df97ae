-------------------------- MODULE CallbacksProofs --------------------------
(***************************************************************************)
(* For any number of detached coroutines and of operations: a coroutine is *)
(* destroyed once, callbacks use only what exists, with the exceptions     *)
(* that NothingDangling names, and who waits has one callback to resume it.*)
(***************************************************************************)
EXTENDS Callbacks, FiniteSetTheorems, TLAPS

\* The frame is destroyed exactly when the coroutine has ended, and the
\* coroutine that runs is the one whose place says so.
Frames ==
  \A c \in Coro : /\ (destroyed[c] <=> pc[c] = "ended")
                  /\ destroys[c] = IF pc[c] = "ended" THEN 1 ELSE 0
                  /\ (running = c <=> pc[c] = "running")

\* A callback that is no response belongs to a coroutine that waits, or to one
\* that was cancelled while it waited for a lookup or for Base::once.
Owned ==
  \A p \in pending : p.op # "request" =>
    /\ pc[p.coro] \in {"waiting", "ended"}
    /\ pc[p.coro] = "ended" => p.op \in {"lookup", "once"} /\ p.coro \in cancelled

\* A coroutine that waits has at most one of them.
Single ==
  \A p, q \in pending :
    p.coro = q.coro /\ p.op # "request" /\ q.op # "request" /\ pc[p.coro] = "waiting" => p = q

\* A response that is to come belongs to a coroutine that exists, has none, and
\* waits for no other.
Responses ==
  \A p \in pending : p.op = "request" =>
    p = Callback(p.coro, "request") /\ pc[p.coro] # "ended" /\ ~complete[p.coro]

\* Who waits for a response waits for nothing else.
Awaited ==
  \A c \in Coro : awaiter[c] /\ ~complete[c] =>
    /\ pc[c] \in {"waiting", "ended"}
    /\ pc[c] = "waiting" => \A q \in pending : q.coro = c => q.op = "request"

\* What was used although it was gone.
Harmless == undefined \notin Events /\ (undefined \in {"lookup", "once"} => cancelled # {})

\* A response that has come is the user's as long as the coroutine exists.
Usable ==
  /\ http \in [Coro -> {"none", "libevent", "user", "freed"}]
  /\ \A c \in Coro : complete[c] /\ pc[c] # "ended" => http[c] = "user"

\* The inductive invariant; Usable is inductive relative to it.
CInv == TypeOK /\ Frames /\ Owned /\ Single /\ Responses /\ Awaited /\ Harmless

\* It holds initially: no callback is held, and nobody has run.
LEMMA CInvInit == ASSUME None \notin Coro PROVE Init => CInv
  BY DEF Init, CInv, TypeOK, Places, Frames, Owned, Single, Responses, Awaited, Harmless, Events

\* A coroutine is started (initial_suspend).
LEMMA StartStep == ASSUME NEW c \in Coro, None \notin Coro, CInv, Start(c) PROVE CInv'
  BY DEF Start, CInv, TypeOK, Places, Frames, Owned, Single, Responses, Awaited, Harmless, frames, request

\* An awaiter suspends its coroutine (await_suspend): the coroutine ran, so it
\* had no callback before.
LEMMA SuspendStep ==
  ASSUME NEW c \in Coro, NEW op \in Ops, None \notin Coro, CInv, await_suspend(c, op) PROVE CInv'
<1> DEFINE n == Callback(c, op)
<1>1. n \in Records /\ n.coro = c /\ n.op = op
  BY DEF Callback, Records
<1>2. /\ pc[c] = "running" /\ pending' = pending \cup {n} /\ op # "request"
      /\ running' = None /\ pc' = [pc EXCEPT ![c] = "waiting"]
      /\ UNCHANGED <<destroyed, destroys, cancelled, complete, awaiter, undefined>>
  BY DEF await_suspend, Begin, Suspend, CInv, Frames, frames, request
<1> HIDE DEF n
<1>3. TypeOK'
  BY <1>1, <1>2 DEF CInv, TypeOK, Places
<1>4. Frames'
  BY <1>2 DEF CInv, TypeOK, Frames
<1>5. Owned'
  BY <1>1, <1>2 DEF CInv, TypeOK, Owned, Records
<1>6. \A q \in pending : q.coro = c => q.op = "request"
  BY <1>2 DEF CInv, Owned
<1>7. Single'
  BY <1>1, <1>2, <1>6 DEF CInv, TypeOK, Single, Records
<1>8. Responses'
  BY <1>1, <1>2 DEF CInv, TypeOK, Responses, Records
<1>9. Awaited'
  BY <1>1, <1>2 DEF CInv, TypeOK, Awaited, Records
<1>10. Harmless'
  BY <1>2 DEF CInv, Harmless
<1> QED BY <1>3, <1>4, <1>5, <1>7, <1>8, <1>9, <1>10 DEF CInv

\* An awaiter throws, and nothing that the invariant speaks of changes.
LEMMA ThrowStep ==
  ASSUME NEW c \in Coro, NEW op \in Ops, CInv, await_throws(c, op) PROVE CInv'
  BY DEF await_throws, Begin, CInv, TypeOK, Frames, Owned, Single, Responses, Awaited, Harmless, frames, request

\* A request is sent (send_request): only one that is not complete, so whoever
\* awaited it is not the one that runs.
LEMMA SendStep == ASSUME NEW c \in Coro, CInv, send_request(c) PROVE CInv'
<1> DEFINE n == Callback(c, "request")
<1>1. n \in Records /\ n.coro = c /\ n.op = "request"
  BY DEF Callback, Records, Ops
<1>2. /\ pc[c] = "running" /\ UNCHANGED <<running, pc, destroyed, destroys, cancelled, complete, awaiter, undefined>>
      /\ pending' = pending \/ (~complete[c] /\ pending' = pending \cup {n})
  BY DEF send_request, Begin, CInv, Frames, frames
<1> HIDE DEF n
<1>3. CASE pending' = pending
  BY <1>2, <1>3 DEF CInv, TypeOK, Frames, Owned, Single, Responses, Awaited, Harmless
<1>4. CASE ~complete[c] /\ pending' = pending \cup {n}
  <2>1. TypeOK' /\ Frames' /\ Harmless'
    BY <1>1, <1>2, <1>4 DEF CInv, TypeOK, Frames, Harmless
  <2>2. Owned' /\ Single'
    BY <1>1, <1>2, <1>4 DEF CInv, TypeOK, Owned, Single, Records
  <2>3. Responses'
    BY <1>1, <1>2, <1>4 DEF CInv, TypeOK, Responses, Records, n
  <2>4. Awaited'
    BY <1>1, <1>2, <1>4 DEF CInv, TypeOK, Awaited, Records
  <2> QED BY <2>1, <2>2, <2>3, <2>4 DEF CInv
<1> QED BY <1>2, <1>3, <1>4

\* A response is awaited (Connection::Awaiter).
LEMMA ResponseStep == ASSUME NEW c \in Coro, None \notin Coro, CInv, await_response(c) PROVE CInv'
<1>1. /\ pc[c] = "running" /\ UNCHANGED <<pending, destroyed, destroys, cancelled, complete, undefined>>
      /\ \/ UNCHANGED <<running, pc, awaiter>>
         \/ /\ awaiter' = [awaiter EXCEPT ![c] = TRUE]
            /\ running' = None /\ pc' = [pc EXCEPT ![c] = "waiting"]
  BY DEF await_response, Suspend, CInv, Frames, frames
<1>2. CASE UNCHANGED <<running, pc, awaiter>>
  BY <1>1, <1>2 DEF CInv, TypeOK, Frames, Owned, Single, Responses, Awaited, Harmless
<1>3. CASE /\ awaiter' = [awaiter EXCEPT ![c] = TRUE]
           /\ running' = None /\ pc' = [pc EXCEPT ![c] = "waiting"]
  <2>1. \A q \in pending : q.coro = c => q.op = "request"
    BY <1>1 DEF CInv, Owned
  <2>2. TypeOK' /\ Frames' /\ Harmless'
    BY <1>1, <1>3 DEF CInv, TypeOK, Places, Frames, Harmless
  <2>3. Owned' /\ Single' /\ Responses'
    BY <1>1, <1>3, <2>1 DEF CInv, TypeOK, Owned, Single, Responses, Records
  <2>4. Awaited'
    BY <1>1, <1>3, <2>1 DEF CInv, TypeOK, Awaited
  <2> QED BY <2>2, <2>3, <2>4 DEF CInv
<1> QED BY <1>1, <1>2, <1>3

\* A coroutine returns (FinalAwaiter): it ran, so it had no callback but the
\* one of its request, which goes with its connection.
LEMMA ReturnStep == ASSUME NEW c \in Coro, None \notin Coro, CInv, Return(c) PROVE CInv'
<1>1. /\ pc[c] = "running" /\ ~destroyed[c] /\ destroys[c] = 0
      /\ running' = None /\ pc' = [pc EXCEPT ![c] = "ended"]
      /\ UNCHANGED <<cancelled, complete, awaiter, undefined>>
  BY DEF Return, CInv, Frames
<1>2. /\ destroyed' = [destroyed EXCEPT ![c] = TRUE]
      /\ destroys' = [destroys EXCEPT ![c] = @ + 1]
      /\ pending' = {p \in pending : p.coro # c \/ p.op \in {"lookup", "once"}}
  BY <1>1 DEF Return, cancel, Kept
<1>3. \A q \in pending : q.coro = c => q.op = "request"
  BY <1>1 DEF CInv, Owned
<1>4. TypeOK'
  BY <1>1, <1>2 DEF CInv, TypeOK, Places
<1>5. Frames'
  BY <1>1, <1>2 DEF CInv, TypeOK, Frames
<1>6. Owned' /\ Single' /\ Responses'
  BY <1>1, <1>2, <1>3 DEF CInv, TypeOK, Owned, Single, Responses, Records
<1>7. Awaited' /\ Harmless'
  BY <1>1, <1>2 DEF CInv, TypeOK, Awaited, Harmless
<1> QED BY <1>4, <1>5, <1>6, <1>7 DEF CInv

\* A coroutine is cancelled (DetachedTask::cancel); one that has ended is not
\* destroyed again.
LEMMA CancelStep == ASSUME NEW c \in Coro, None \notin Coro, CInv, Cancel(c) PROVE CInv'
<1>1. /\ pc[c] \in {"waiting", "ended"} /\ pc' = [pc EXCEPT ![c] = "ended"]
      /\ UNCHANGED <<running, complete, awaiter, undefined>>
      /\ cancelled' = cancelled \cup {p.coro : p \in {q \in pending : q.coro = c /\ q.op \in {"lookup", "once"}}}
      /\ destroyed' = [destroyed EXCEPT ![c] = TRUE]
  BY DEF Cancel, cancel
<1>2. cancelled \subseteq cancelled'
  BY <1>1
<1>3. CASE pc[c] = "ended"
  <2>1. UNCHANGED <<pc, destroyed, destroys, pending>>
    <3>1. destroyed[c] = TRUE
      BY <1>3 DEF CInv, TypeOK, Frames
    <3>2. UNCHANGED <<destroys, pending>>
      BY <3>1 DEF Cancel, cancel
    <3>3. pc' = pc /\ destroyed' = destroyed
      BY <1>1, <1>3, <3>1 DEF CInv, TypeOK
    <3> QED BY <3>2, <3>3
  <2> QED BY <1>1, <1>2, <2>1 DEF CInv, TypeOK, Frames, Owned, Single, Responses, Awaited, Harmless
<1>4. CASE pc[c] = "waiting"
  <2>1. ~destroyed[c] /\ destroys[c] = 0
    BY <1>4 DEF CInv, Frames
  <2>2. /\ destroys' = [destroys EXCEPT ![c] = @ + 1]
        /\ pending' = {p \in pending : p.coro # c \/ p.op \in {"lookup", "once"}}
    BY <2>1 DEF Cancel, cancel, Kept
  <2>3. TypeOK'
    BY <1>1, <2>2 DEF CInv, TypeOK, Places
  <2>4. Frames'
    BY <1>1, <1>4, <2>1, <2>2 DEF CInv, TypeOK, Frames
  <2>5. \A p \in pending' : p.coro = c => p.coro \in cancelled'
    BY <1>1, <2>2
  <2>6. Owned'
    BY <1>1, <1>2, <1>4, <2>2, <2>5 DEF CInv, TypeOK, Owned, Records
  <2>7. Single' /\ Responses'
    BY <1>1, <2>2 DEF CInv, TypeOK, Single, Responses, Records
  <2>8. Awaited' /\ Harmless'
    BY <1>1, <1>2, <2>2 DEF CInv, TypeOK, Awaited, Harmless
  <2> QED BY <2>3, <2>4, <2>6, <2>7, <2>8 DEF CInv
<1> QED BY <1>1, <1>3, <1>4

\* A callback runs the coroutine it belongs to: nobody else runs, and the
\* coroutine has no other callback that is not a response.
LEMMA RunStep ==
  ASSUME NEW c \in Coro, NEW P \in SUBSET pending, None \notin Coro, CInv, running = None,
         pc[c] = "waiting", running' = c, pc' = [pc EXCEPT ![c] = "running"], pending' = P,
         UNCHANGED <<destroyed, destroys, cancelled, undefined, awaiter>>,
         complete' \in [Coro -> BOOLEAN],
         \A d \in Coro : d # c => complete'[d] = complete[d],
         \A q \in P : q.coro = c => q.op = "request" /\ ~complete'[c],
         awaiter[c] => complete'[c]
  PROVE CInv'
<1>1. TypeOK'
  BY ZenonT(30) DEF CInv, TypeOK, Places
<1>2. Frames'
  BY DEF CInv, TypeOK, Frames
<1>3. Owned' /\ Single' /\ Responses'
  BY DEF CInv, TypeOK, Owned, Single, Responses, Records
<1>4. Awaited' /\ Harmless'
  BY DEF CInv, TypeOK, Awaited, Harmless
<1> QED BY <1>1, <1>2, <1>3, <1>4 DEF CInv

\* The event loop runs a callback (on_trigger, dispatch_on_request_complete,
\* resume_coro, on_response).
LEMMA FireStep == ASSUME NEW p \in pending, None \notin Coro, CInv, undefined = "no", Fire(p) PROVE CInv'
<1> DEFINE c == p.coro
<1>1. /\ c \in Coro /\ p.op \in Ops /\ running = None /\ pending' = pending \ {p}
      /\ UNCHANGED <<destroyed, destroys, cancelled>>
  BY DEF Fire, frames, CInv, TypeOK, Records
<1>2. CASE on_trigger(p) /\ destroyed[c]
  <2>1. /\ p.op # "request" /\ undefined' = p.op /\ UNCHANGED <<running, pc, complete, awaiter>>
    BY <1>2 DEF on_trigger, request
  <2>2. pc[c] = "ended"
    BY <1>1, <1>2 DEF CInv, Frames
  <2>3. p.op \in {"lookup", "once"} /\ c \in cancelled
    BY <2>1, <2>2 DEF CInv, Owned
  <2>4. Harmless'
    BY <1>1, <2>1, <2>3 DEF Harmless, Events
  <2>5. TypeOK' /\ Frames' /\ Owned' /\ Single' /\ Responses' /\ Awaited'
    BY <1>1, <2>1 DEF CInv, TypeOK, Frames, Owned, Single, Responses, Awaited
  <2> QED BY <2>4, <2>5 DEF CInv
<1>3. CASE on_trigger(p) /\ ~destroyed[c]
  <2>1. /\ p.op # "request" /\ running' = c /\ pc' = [pc EXCEPT ![c] = "running"]
        /\ UNCHANGED <<undefined, complete, awaiter>>
    BY <1>3 DEF on_trigger, Run, request
  <2>2. pc[c] = "waiting"
    BY <1>1, <1>3, <2>1 DEF CInv, Frames, Owned
  <2>3. \A q \in pending \ {p} : q.coro = c => q.op = "request" /\ ~complete[c]
    BY <2>1, <2>2 DEF CInv, Single, Responses
  <2>4. awaiter[c] => complete[c]
    BY <1>1, <2>1, <2>2 DEF CInv, Awaited
  <2>5. complete \in [Coro -> BOOLEAN]
    BY DEF CInv, TypeOK
  <2> HIDE DEF c
  <2> QED BY <1>1, <2>1, <2>2, <2>3, <2>4, <2>5, RunStep, ZenonT(30)
<1>4. CASE on_response(p) \/ on_failure(p)
  <2>1. p.op = "request" /\ pc[c] # "ended" /\ ~complete[c]
    BY <1>4 DEF on_response, on_failure, CInv, Responses
  <2>2. CASE on_failure(p)
    <3>1. undefined' = "request" /\ UNCHANGED <<running, pc, complete, awaiter>>
      BY <2>2 DEF on_failure
    <3>2. Harmless'
      BY <3>1 DEF Harmless, Events
    <3> QED BY <1>1, <3>1, <3>2 DEF CInv, TypeOK, Frames, Owned, Single, Responses, Awaited
  <2>3. CASE on_response(p)
    <3>1. /\ complete' = [complete EXCEPT ![c] = TRUE] /\ UNCHANGED <<awaiter, undefined>>
          /\ IF awaiter[c] THEN running' = c /\ pc' = [pc EXCEPT ![c] = "running"] ELSE UNCHANGED <<running, pc>>
      BY <2>3 DEF on_response, Run
    <3>2. complete' \in [Coro -> BOOLEAN] /\ complete'[c] /\ \A d \in Coro : d # c => complete'[d] = complete[d]
      BY <1>1, <3>1 DEF CInv, TypeOK
    <3>3. \A q \in pending \ {p} : q.op = "request" => q.coro # c
      BY <2>1 DEF CInv, Responses
    <3>4. CASE awaiter[c]
      <4>1. pc[c] = "waiting" /\ \A q \in pending \ {p} : q.coro # c
        BY <1>1, <2>1, <3>3, <3>4 DEF CInv, Awaited
      <4>2. running' = c /\ pc' = [pc EXCEPT ![c] = "running"] /\ UNCHANGED <<awaiter, undefined>>
        BY <3>1, <3>4
      <4>3. \A q \in pending \ {p} : q.coro = c => q.op = "request" /\ ~complete'[c]
        BY <4>1
      <4>4. awaiter[c] => complete'[c]
        BY <3>2
      <4> HIDE DEF c
      <4> QED BY <1>1, <3>2, <4>1, <4>2, <4>3, <4>4, RunStep, ZenonT(30)
    <3>5. CASE ~awaiter[c]
      <4>1. UNCHANGED <<running, pc>>
        BY <3>1, <3>5
      <4> HIDE DEF c
      <4>2. TypeOK' /\ Frames' /\ Harmless'
        BY <1>1, <3>1, <3>2, <4>1 DEF CInv, TypeOK, Frames, Harmless
      <4>3. Owned' /\ Single'
        BY <1>1, <3>1, <4>1 DEF CInv, Owned, Single
      <4>4. Responses'
        BY <1>1, <3>1, <3>2, <3>3, <4>1 DEF CInv, TypeOK, Responses, Records, Callback
      <4>5. Awaited'
        BY <1>1, <3>1, <3>2, <3>5, <4>1 DEF CInv, TypeOK, Awaited
      <4> QED BY <4>2, <4>3, <4>4, <4>5 DEF CInv
    <3> QED BY <3>4, <3>5
  <2> QED BY <1>4, <2>2, <2>3
<1> QED BY <1>2, <1>3, <1>4 DEF Fire

\* The DNSBase is destroyed: the lookups keep their callbacks (~DNSBase).
LEMMA FreeStep == ASSUME CInv, FreeDNS PROVE CInv'
<1> DEFINE F(p) == [p EXCEPT !.result = IF p.op = "lookup" THEN "shutdown" ELSE @]
<1>1. /\ pending' = {F(p) : p \in pending}
      /\ UNCHANGED <<running, pc, destroyed, destroys, cancelled, complete, awaiter, undefined>>
  BY DEF FreeDNS, frames, request
<1>2. \A p \in pending : /\ F(p) \in Records /\ F(p).coro = p.coro /\ F(p).op = p.op
                         /\ p.op # "lookup" => F(p) = p
  BY DEF CInv, TypeOK, Records
<1> HIDE DEF F
<1>3. TypeOK' /\ Frames' /\ Harmless'
  BY <1>1, <1>2 DEF CInv, TypeOK, Frames, Harmless
<1>4. Owned' /\ Single'
  BY <1>1, <1>2 DEF CInv, TypeOK, Owned, Single
<1>5. Responses'
  BY <1>1, <1>2 DEF CInv, TypeOK, Responses, Callback
<1>6. Awaited'
  BY <1>1, <1>2 DEF CInv, TypeOK, Awaited
<1> QED BY <1>3, <1>4, <1>5, <1>6 DEF CInv

\* Every step keeps the invariant.
LEMMA CInvStep == ASSUME None \notin Coro, CInv, [Next]_vars PROVE CInv'
<1>1. CASE UNCHANGED vars
  BY <1>1 DEF vars, CInv, TypeOK, Frames, Owned, Single, Responses, Awaited, Harmless
<1>2. CASE Next
  <2>1. ASSUME NEW c \in Coro, Start(c) PROVE CInv'
    BY <2>1, StartStep
  <2>2. ASSUME NEW c \in Coro, send_request(c) PROVE CInv'
    BY <2>2, SendStep
  <2>3. ASSUME NEW c \in Coro, await_response(c) PROVE CInv'
    BY <2>3, ResponseStep
  <2>4. ASSUME NEW c \in Coro, Return(c) PROVE CInv'
    BY <2>4, ReturnStep
  <2>5. ASSUME NEW c \in Coro, Cancel(c) PROVE CInv'
    BY <2>5, CancelStep
  <2>6. ASSUME NEW c \in Coro, NEW op \in Ops, await_suspend(c, op) \/ await_throws(c, op) PROVE CInv'
    BY <2>6, SuspendStep, ThrowStep
  <2>7. ASSUME NEW p \in pending, Fire(p) PROVE CInv'
    BY <1>2, <2>7, FireStep DEF Next
  <2>8. ASSUME FreeDNS PROVE CInv'
    BY <2>8, FreeStep
  <2> QED BY <1>2, <2>1, <2>2, <2>3, <2>4, <2>5, <2>6, <2>7, <2>8 DEF Next
<1> QED BY <1>1, <1>2

\* Every step keeps a response that has come usable: only a request that is not
\* complete is handed to libevent (send_request) or fails (on_response), and
\* only libevent's own is freed with the connection (cancel).
LEMMA UsableStep == ASSUME CInv, Usable, [Next]_vars PROVE Usable'
<1>1. ASSUME UNCHANGED <<http, complete>>, \A c \in Coro : pc'[c] # "ended" => pc[c] # "ended" PROVE Usable'
  BY <1>1 DEF Usable
<1>2. CASE UNCHANGED vars
  BY <1>1, <1>2 DEF vars
<1>3. ASSUME NEW c \in Coro, Start(c) PROVE Usable'
  BY <1>3 DEF Usable, CInv, TypeOK, Start, request
<1>4. ASSUME NEW c \in Coro, send_request(c) PROVE Usable'
  BY <1>4 DEF Usable, send_request
<1>5. ASSUME NEW c \in Coro, running = c, UNCHANGED <<http, complete>>, pc' = pc \/ Suspend(c) PROVE Usable'
  BY <1>5 DEF Usable, CInv, TypeOK, Frames, Suspend
<1>6. ASSUME NEW c \in Coro, await_response(c) PROVE Usable'
  BY <1>5, <1>6 DEF await_response
<1>7. ASSUME NEW c \in Coro, NEW op \in Ops, await_suspend(c, op) \/ await_throws(c, op) PROVE Usable'
  BY <1>5, <1>7 DEF await_suspend, await_throws, Begin, request
<1>8. ASSUME NEW c \in Coro, Return(c) \/ Cancel(c) PROVE Usable'
  <2>1. /\ pc' = [pc EXCEPT ![c] = "ended"] /\ UNCHANGED complete
        /\ http' = http \/ http' = [http EXCEPT ![c] = IF @ = "libevent" THEN "freed" ELSE @]
    BY <1>8 DEF Return, Cancel, cancel
  <2> QED BY <2>1 DEF Usable, CInv, TypeOK
<1>9. ASSUME NEW p \in pending, Fire(p) PROVE Usable'
  <2> DEFINE c == p.coro
  <2>1. c \in Coro
    BY DEF CInv, TypeOK, Records
  <2>2. CASE on_trigger(p) /\ destroyed[c]
    BY <1>1, <2>2 DEF on_trigger, request
  <2>3. CASE on_trigger(p) /\ ~destroyed[c]
    <3>1. pc[c] # "ended" /\ pc' = [pc EXCEPT ![c] = "running"] /\ UNCHANGED <<http, complete>>
      BY <2>1, <2>3 DEF on_trigger, Run, request, CInv, Frames
    <3> QED BY <2>1, <3>1 DEF Usable, CInv, TypeOK
  <2>4. CASE on_response(p)
    <3>1. /\ pc[c] # "ended"
          /\ http' = [http EXCEPT ![c] = "user"] /\ complete' = [complete EXCEPT ![c] = TRUE]
          /\ pc' = pc \/ pc' = [pc EXCEPT ![c] = "running"]
      BY <2>4 DEF on_response, Run, CInv, Responses
    <3> QED BY <2>1, <3>1 DEF Usable, CInv, TypeOK
  <2>5. CASE on_failure(p)
    <3>1. ~complete[c] /\ http' = [http EXCEPT ![c] = "freed"] /\ UNCHANGED <<pc, complete>>
      BY <2>5 DEF on_failure, CInv, Responses
    <3> QED BY <2>1, <3>1 DEF Usable
  <2> QED BY <1>9, <2>2, <2>3, <2>4, <2>5 DEF Fire
<1>10. CASE FreeDNS
  BY <1>1, <1>10 DEF FreeDNS, request
<1> QED BY <1>2, <1>3, <1>4, <1>6, <1>7, <1>8, <1>9, <1>10 DEF Next

\* For any number of coroutines: each one is destroyed once, when it returns or
\* is cancelled, and never again (DetachedTaskCoroutine::cancel).
THEOREM CoroutinesDestroyedOnce == Spec => []DestroyedOnce
<1>1. Init => CInv
  BY NoneAssumption, CInvInit
<1>2. CInv /\ [Next]_vars => CInv'
  BY NoneAssumption, CInvStep
<1>3. CInv => DestroyedOnce
  BY DEF CInv, Frames, DestroyedOnce
<1> QED BY <1>1, <1>2, <1>3, PTL DEF Spec

\* For any number of coroutines: no callback of an event runs for a coroutine
\* that is gone, only cancelling leaves one of a lookup or of Base::once, and a
\* response that has come can be examined as long as its coroutine exists.
THEOREM CallbacksSafe == Spec => []NothingDangling
<1>1. Init => CInv /\ Usable
  BY NoneAssumption, CInvInit DEF Init, Usable
<1>2. CInv /\ Usable /\ [Next]_vars => CInv' /\ Usable'
  BY NoneAssumption, CInvStep, UsableStep
<1>3. CInv /\ Usable => NothingDangling
  <2> SUFFICES ASSUME CInv, Usable PROVE NothingDangling
    OBVIOUS
  <2>1. \A p \in pending : destroyed[p.coro] => p.coro \in cancelled
    BY DEF CInv, TypeOK, Records, Frames, Owned, Responses
  <2> QED BY <2>1 DEF CInv, Harmless, Usable, NothingDangling
<1> QED BY <1>1, <1>2, <1>3, PTL DEF Spec

\* Who waits has a callback that will resume it, and a request that libevent
\* owns has its callback; one that is the user's is complete.
Reachable(c) ==
  /\ pc[c] = "waiting" => \E p \in pending : p.coro = c /\ (p.op = "request" => awaiter[c])
  /\ http[c] = "libevent" => Callback(c, "request") \in pending
  /\ http[c] = "user" => complete[c]

\* As long as nothing freed was used.
Reached == undefined = "no" => \A c \in Coro : Reachable(c)

\* A step of one coroutine that takes no other's callbacks leaves the others
\* reachable.
LEMMA OthersReachable ==
  ASSUME CInv, NEW c \in Coro, NEW d \in Coro, c # d, Reachable(d),
         pc'[d] = pc[d], http'[d] = http[d], complete'[d] = complete[d], awaiter'[d] = awaiter[d],
         \A p \in pending : p.coro # c => p \in pending'
  PROVE Reachable(d)'
  BY DEF Reachable, Callback

\* Every step keeps who waits reachable: a coroutine suspends only after its
\* callback was handed to libevent, for a response only one that is still to
\* come (Connection::Awaiter), and a callback that is gone was the one that ran.
LEMMA ReachedStep ==
  ASSUME None \notin Coro, CInv, Usable, Reached, [Next]_vars PROVE Reached'
<1>1. CASE UNCHANGED vars
  BY <1>1 DEF vars, Reached, Reachable
<1>2. CASE Next /\ undefined' = "no"
  <2>1. undefined = "no" /\ \A c \in Coro : Reachable(c)
    BY <1>2 DEF Next, Reached
  <2>2. ASSUME NEW c \in Coro, Start(c), NEW d \in Coro PROVE Reachable(d)'
    BY <2>1, <2>2 DEF Start, Reachable, CInv, TypeOK, request
  <2>3. ASSUME NEW c \in Coro, send_request(c), NEW d \in Coro PROVE Reachable(d)'
    BY <2>1, <2>3 DEF send_request, Reachable, CInv, TypeOK, Usable
  <2>4. ASSUME NEW c \in Coro, await_response(c), NEW d \in Coro PROVE Reachable(d)'
    <3>1. /\ UNCHANGED <<pending, http, complete>>
          /\ \/ UNCHANGED <<pc, awaiter>>
             \/ /\ ~complete[c] /\ http[c] \in {"libevent", "user"}
                /\ awaiter' = [awaiter EXCEPT ![c] = TRUE] /\ pc' = [pc EXCEPT ![c] = "waiting"]
      BY <2>4 DEF await_response, Suspend
    <3>2. CASE d # c
      BY <2>1, <3>1, <3>2, OthersReachable DEF CInv, TypeOK
    <3>3. CASE d = c /\ UNCHANGED <<pc, awaiter>>
      BY <2>1, <3>1, <3>3 DEF Reachable
    <3>4. CASE d = c /\ ~UNCHANGED <<pc, awaiter>>
      <4>1. awaiter'[c] = TRUE /\ Callback(c, "request") \in pending' /\ http'[c] = "libevent"
        BY <2>1, <3>1, <3>4 DEF Reachable, CInv, TypeOK
      <4>2. Callback(c, "request").coro = c
        BY DEF Callback
      <4> QED BY <3>4, <4>1, <4>2 DEF Reachable
    <3> QED BY <3>2, <3>3, <3>4
  <2>5. ASSUME NEW c \in Coro, Return(c) \/ Cancel(c), NEW d \in Coro PROVE Reachable(d)'
    <3>1. /\ pc' = [pc EXCEPT ![c] = "ended"] /\ UNCHANGED <<complete, awaiter>>
          /\ \/ destroyed[c] /\ UNCHANGED <<http, pending>>
             \/ /\ http' = [http EXCEPT ![c] = IF @ = "libevent" THEN "freed" ELSE @]
                /\ pending' = {p \in pending : p.coro # c \/ p.op \in {"lookup", "once"}}
      BY <2>5 DEF Return, Cancel, cancel, Kept
    <3>2. CASE d # c
      BY <2>1, <3>1, <3>2, OthersReachable DEF CInv, TypeOK, Usable
    <3>3. CASE d = c
      BY <2>1, <3>1, <3>3 DEF Reachable, CInv, TypeOK, Usable
    <3> QED BY <3>2, <3>3
  <2>6. ASSUME NEW c \in Coro, NEW op \in Ops, await_suspend(c, op), NEW d \in Coro PROVE Reachable(d)'
    <3>1. /\ UNCHANGED <<http, complete, awaiter>> /\ op # "request"
          /\ pending' = pending \cup {Callback(c, op)} /\ pc' = [pc EXCEPT ![c] = "waiting"]
      BY <2>6 DEF await_suspend, Suspend, request
    <3>2. Callback(c, op).coro = c /\ Callback(c, op).op # "request"
      BY <3>1 DEF Callback
    <3>3. CASE d # c
      BY <2>1, <3>1, <3>3, OthersReachable DEF CInv, TypeOK
    <3>4. CASE d = c
      BY <2>1, <3>1, <3>2, <3>4 DEF Reachable, CInv, TypeOK
    <3> QED BY <3>3, <3>4
  <2>7. ASSUME NEW c \in Coro, NEW op \in Ops, await_throws(c, op), NEW d \in Coro PROVE Reachable(d)'
    BY <2>1, <2>7 DEF await_throws, Reachable, request
  <2>8. ASSUME NEW p \in pending, Fire(p), NEW d \in Coro PROVE Reachable(d)'
    <3> DEFINE c == p.coro
    <3>1. c \in Coro /\ p.op \in Ops /\ pending' = pending \ {p}
      BY <2>8 DEF Fire, CInv, TypeOK, Records
    <3>2. ~on_failure(p)
      BY <1>2 DEF on_failure
    <3>3. CASE on_trigger(p)
      <4>1. p.op # "request" /\ pc' = [pc EXCEPT ![c] = "running"] /\ UNCHANGED <<http, complete, awaiter>>
        <5>1. p.op # "no"
          BY <3>1 DEF Ops, Events
        <5> QED BY <1>2, <3>3, <5>1 DEF on_trigger, Run, request
      <4>2. Callback(d, "request") # p
        BY <4>1 DEF Callback
      <4>3. CASE d # c
        BY <2>1, <3>1, <4>1, <4>3, OthersReachable DEF CInv, TypeOK
      <4>4. CASE d = c
        BY <2>1, <3>1, <4>1, <4>2, <4>4 DEF Reachable, CInv, TypeOK
      <4> QED BY <4>3, <4>4
    <3>4. CASE on_response(p)
      <4>1. /\ p.op = "request" /\ UNCHANGED awaiter
            /\ http' = [http EXCEPT ![c] = "user"] /\ complete' = [complete EXCEPT ![c] = TRUE]
            /\ IF awaiter[c] THEN pc' = [pc EXCEPT ![c] = "running"] ELSE UNCHANGED pc
        BY <3>4 DEF on_response, Run
      <4>2. CASE d # c
        BY <2>1, <3>1, <4>1, <4>2, OthersReachable, ZenonT(30) DEF CInv, TypeOK, Usable
      <4>3. CASE d = c
        <5>1. http'[d] = "user" /\ complete'[d] = TRUE
          BY <3>1, <4>1, <4>3 DEF CInv, TypeOK, Usable
        <5>2. pc'[d] = "waiting" => ~awaiter[d] /\ pc[d] = "waiting"
          BY <3>1, <4>1, <4>3 DEF CInv, TypeOK
        <5>3. pc'[d] = "waiting" => \E q \in pending : q.coro = d /\ q.op # "request"
          BY <2>1, <5>2 DEF Reachable
        <5> QED BY <3>1, <4>1, <5>1, <5>3 DEF Reachable
      <4> QED BY <4>2, <4>3
    <3> QED BY <2>8, <3>2, <3>3, <3>4 DEF Fire
  <2>9. ASSUME FreeDNS, NEW d \in Coro PROVE Reachable(d)'
    <3> DEFINE F(p) == [p EXCEPT !.result = IF p.op = "lookup" THEN "shutdown" ELSE @]
    <3>1. pending' = {F(p) : p \in pending} /\ UNCHANGED <<pc, http, complete, awaiter>>
      BY <2>9 DEF FreeDNS, request
    <3>2. \A p \in pending : F(p).coro = p.coro /\ F(p).op = p.op /\ (p.op # "lookup" => F(p) = p)
      BY DEF CInv, TypeOK, Records
    <3>3. Callback(d, "request").op = "request"
      BY DEF Callback
    <3> HIDE DEF F
    <3> QED BY <2>1, <3>1, <3>2, <3>3 DEF Reachable
  <2> QED BY <1>2, <2>2, <2>3, <2>4, <2>5, <2>6, <2>7, <2>8, <2>9 DEF Next, Reached
<1> QED BY <1>1, <1>2 DEF Reached

\* For any number of coroutines: one that waits has exactly one callback that
\* will resume it, whatever was cancelled, freed or answered before.
THEOREM WaitersResumedByOne == Spec => []ResumedByOne
<1>1. Init => CInv /\ Usable /\ Reached
  BY NoneAssumption, CInvInit DEF Init, Usable, Reached, Reachable
<1>2. CInv /\ Usable /\ Reached /\ [Next]_vars => CInv' /\ Usable' /\ Reached'
  BY NoneAssumption, CInvStep, UsableStep, ReachedStep
<1>3. CInv /\ Reached => ResumedByOne
  <2> SUFFICES ASSUME CInv, Reached, undefined = "no", NEW c \in Coro, pc[c] = "waiting"
               PROVE  Cardinality({p \in pending : p.coro = c /\ (p.op = "request" => awaiter[c])}) = 1
    BY DEF ResumedByOne
  <2> DEFINE S == {p \in pending : p.coro = c /\ (p.op = "request" => awaiter[c])}
  <2>1. PICK p \in pending : p.coro = c /\ (p.op = "request" => awaiter[c])
    BY DEF Reached, Reachable
  <2>2. ASSUME NEW q \in S PROVE q = p
    <3>1. CASE p.op # "request" /\ q.op # "request"
      BY <2>1, <3>1 DEF CInv, Single
    <3>2. CASE p.op = "request" \/ q.op = "request"
      <4>1. awaiter[c] /\ ~complete[c]
        BY <2>1, <3>2 DEF CInv, Responses
      <4>2. p.op = "request" /\ q.op = "request"
        BY <2>1, <4>1 DEF CInv, Awaited
      <4> QED BY <2>1, <4>2 DEF CInv, Responses
    <3> QED BY <3>1, <3>2
  <2>3. S = {p}
    BY <2>1, <2>2
  <2> QED BY <2>3, FS_Singleton
<1> QED BY <1>1, <1>2, <1>3, PTL DEF Spec
=============================================================================
