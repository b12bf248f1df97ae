-------------------------- MODULE HTTPServerProofs --------------------------
(***************************************************************************)
(* For any frames, any texts of parameters and any number of frames: the   *)
(* Request is used only while it exists, and it is answered, or its        *)
(* connection freed, once.                                                 *)
(***************************************************************************)
EXTENDS HTTPServer, TLAPS

\* Where read() waits for a field, and where write() has been called.
Reading == {"head", "size", "mask", "data"}
Writing == {"closing", "ponging", "echoing"}

\* Only a handler that has called write() has something to write; the process
\* ends with the handler.
Places ==
  /\ pc \in {"idle", "handling", "accepting", "ended"} \cup Reading \cup Writing
  /\ process # "up" => pc = "ended"
  /\ process = "up" /\ sending # <<>> => pc \in Writing
  /\ \E T : sending \in Seq(T)

\* The Request exists as long as a handler runs that has not suspended, and
\* nothing is settled before the handler's end.
Unsettled ==
  /\ ~misused /\ replies \in Nat /\ frees \in Nat
  /\ pc = "handling" => req_obj = "alive"
  /\ pc # "ended" => replies = 0 /\ frees = 0
  /\ pc = "ended" => replies + frees <= 1 /\ (process = "up" => replies + frees = 1)

SInv == Places /\ Unsettled

\* Sequences of one element, and what is put together from sequences.
LEMMA OneFact == ASSUME NEW S, NEW x \in S PROVE <<x>> \in Seq(S)
  OBVIOUS
LEMMA ConcatFact == ASSUME NEW S, NEW T, NEW s \in Seq(S), NEW t \in Seq(T) PROVE s \o t \in Seq(S \cup T)
<1>1. s \in Seq(S \cup T) /\ t \in Seq(S \cup T)
  OBVIOUS
<1> QED BY <1>1

\* A frame is a sequence of tokens, whatever its size (write).
LEMMA EncodedFacts ==
  ASSUME NEW op, NEW size, NEW data PROVE \E T : Encoded(op, size) \o Data(size, data, 0) \in Seq(T)
<1> DEFINE h(code) == [f |-> "head", bytes |-> 2, op |-> op, fin |-> TRUE, masked |-> FALSE, code |-> code]
           n(bytes, k) == [f |-> "size", bytes |-> bytes, n |-> k]
           large == size > 65535
           medium == size > 125
           a == h(127)
           b == n(8, size)
           c == h(126)
           d == n(2, size % 65536)
           e == h(size)
<1>1. Encoded(op, size) = IF large THEN <<a>> \o <<b>> ELSE IF medium THEN <<c>> \o <<d>> ELSE <<e>>
  BY SMT DEF Encoded, Head2, Size
<1> HIDE DEF large, medium, a, b, c, d, e
<1>2. \A x : <<x>> \in Seq({x})
  BY OneFact
<1>3. \A x, y : <<x>> \o <<y>> \in Seq({x} \cup {y})
  BY <1>2, ConcatFact
<1>4. PICK T : Encoded(op, size) \in Seq(T)
  <2>1. CASE large
    <3>1. Encoded(op, size) \in Seq({a} \cup {b})
      BY <1>1, <1>3, <2>1
    <3> QED BY <3>1
  <2>2. CASE ~large /\ medium
    <3>1. Encoded(op, size) \in Seq({c} \cup {d})
      BY <1>1, <1>3, <2>2
    <3> QED BY <3>1
  <2>3. CASE ~large /\ ~medium
    BY <1>1, <1>2, <2>3, ZenonT(30)
  <2> QED BY <2>1, <2>2, <2>3
<1>5. PICK U : Data(size, data, 0) \in Seq(U)
  <2>1. <<>> \in Seq({})
    OBVIOUS
  <2> QED BY <1>2, <2>1, Zenon DEF Data
<1> QED BY <1>4, <1>5, ConcatFact, Zenon

\* The handler ends with an answer to its own Request (send_response).
LEMMA RespondStep ==
  ASSUME SInv, pc = "handling", send_response, UNCHANGED <<process, sending>> PROVE SInv'
<1>1. ~misused'
  BY Zenon DEF SInv, Unsettled, send_response
<1> QED BY <1>1 DEF SInv, Places, Unsettled, send_response, Reading, Writing

\* An exception ends the handler and the process; the connection is freed with
\* the WebsocketClient, if there is one.
LEMMA ThrowStep ==
  ASSUME SInv, pc # "ended", Throw, UNCHANGED sending PROVE SInv'
  BY DEF SInv, Places, Unsettled, Throw, Destroy

\* read() waits for the next field.
LEMMA AwaitStep ==
  ASSUME SInv, pc \in Reading, process = "up", NEW field \in Reading, Await(field), UNCHANGED req_obj PROVE SInv'
  BY DEF SInv, Places, Unsettled, Await, Reading, Writing

\* write() suspends.
LEMMA WriteStep ==
  ASSUME SInv, pc \in Reading, process = "up", NEW op, NEW size, NEW data, NEW place \in Writing,
         write(op, size, data, place), UNCHANGED req_obj
  PROVE  SInv'
<1>1. \E T : sending' \in Seq(T)
  BY EncodedFacts DEF write
<1> QED BY <1>1 DEF SInv, Places, Unsettled, write, Reading, Writing

\* A frame that has been read is answered, skipped, kept or refused.
LEMMA PayloadStep ==
  ASSUME SInv, pc \in Reading, process = "up", NEW g, NEW data, Payload(g, data), UNCHANGED req_obj PROVE SInv'
<1>1. pc # "ended" /\ "head" \in Reading /\ Writing = {"closing", "ponging", "echoing"}
  BY DEF Reading, Writing
<1>2. \/ Await("head")
      \/ \E op, size, d : \E place \in Writing : write(op, size, d, place)
      \/ Throw /\ UNCHANGED sending
  BY <1>1 DEF Payload
<1> QED BY <1>1, <1>2, AwaitStep, WriteStep, ThrowStep

\* So is one whose payload may be empty.
LEMMA BeforePayloadStep ==
  ASSUME SInv, pc \in Reading, process = "up", NEW g, BeforePayload(g), UNCHANGED req_obj PROVE SInv'
<1>1. "data" \in Reading
  BY DEF Reading
<1> QED BY <1>1, AwaitStep, PayloadStep DEF BeforePayload

\* read() goes on with the field that it waits for.
LEMMA ReadStep == ASSUME SInv, read_head \/ read_size \/ read_mask \/ read_data PROVE SInv'
<1>1. pc \in Reading /\ process = "up" /\ UNCHANGED req_obj
  BY DEF read_head, read_size, read_mask, read_data, Field, Resumed, Reading
<1>2. {"size", "mask"} \subseteq Reading
  BY DEF Reading
<1>3. \/ Await("size") \/ Await("mask")
      \/ \E g : BeforePayload(g)
      \/ \E g, data : Payload(g, data)
  BY DEF read_head, read_size, read_mask, read_data
<1> QED BY <1>1, <1>2, <1>3, AwaitStep, BeforePayloadStep, PayloadStep

\* A part of a frame is written; after the last one the handler goes on.
LEMMA WriteReadyStep == ASSUME SInv, on_write_ready PROVE SInv'
<1>1. /\ process = "up" /\ sending # <<>> /\ sending' = Tail(sending) /\ UNCHANGED req_obj
      /\ pc \in Writing
  BY DEF on_write_ready, Resumed, SInv, Places
<1>2. PICK T : sending \in Seq(T)
  BY DEF SInv, Places
<1>3. sending' \in Seq(T) /\ (Len(sending) = 1 => sending' = <<>>)
  BY <1>1, <1>2
<1>4. CASE Len(sending) # 1
  BY <1>1, <1>3, <1>4 DEF on_write_ready, SInv, Places, Unsettled
<1>5. CASE Len(sending) = 1
  <2>1. Written /\ sending' = <<>>
    BY <1>3, <1>5 DEF on_write_ready
  <2>2. CASE pc = "closing" /\ Throw
    BY <1>3, <2>2 DEF SInv, Places, Unsettled, Throw, Destroy
  <2>3. CASE pc' = "ended" /\ Destroy /\ UNCHANGED process
    BY <1>1, <1>3, <2>1, <2>3 DEF SInv, Places, Unsettled, Destroy, Writing
  <2>4. CASE pc' = "head" /\ UNCHANGED <<process, replies, frees, misused>>
    BY <1>1, <1>3, <2>1, <2>4 DEF SInv, Places, Unsettled, Reading, Writing
  <2> QED BY <2>1, <2>2, <2>3, <2>4 DEF Written
<1> QED BY <1>4, <1>5

\* Every step keeps the invariant.
LEMMA SInvStep == ASSUME SInv, [Next]_vars PROVE SInv'
<1>1. CASE UNCHANGED vars \/ (\E g \in Frames : SendFrame(g)) \/ (\E n \in 0..Len(wire) : Close(n)) \/ Reset
  <2>1. UNCHANGED <<process, pc, req_obj, replies, frees, misused, sending>>
    BY <1>1 DEF vars, SendFrame, Close, Reset, handler
  <2> QED BY <2>1 DEF SInv, Places, Unsettled
<1>2. CASE dispatch_handle_request \/ dispatch_return
  BY <1>2 DEF dispatch_handle_request, dispatch_return, SInv, Places, Unsettled, Reading, Writing
<1>3. CASE Answer
  BY <1>3, RespondStep DEF Answer
<1>4. CASE AnswerNoQuery
  BY <1>4 DEF AnswerNoQuery, SInv, Places, Unsettled
<1>5. ASSUME NEW q, NEW text, AnswerParams(q, text) PROVE SInv'
  <2>1. pc = "handling" /\ UNCHANGED sending
    BY <1>5 DEF AnswerParams
  <2>2. Throw \/ (send_response /\ UNCHANGED process)
    <3> DEFINE bad == \E i \in DOMAIN parse_url_params(q) : Contains(parse_url_params(q)[i].value, Exception)
    <3>1. (bad => Throw) /\ (~bad => send_response /\ UNCHANGED process)
      BY <1>5 DEF AnswerParams
    <3> HIDE DEF bad
    <3> QED BY <3>1
  <2> QED BY <2>1, <2>2, RespondStep, ThrowStep
<1>6. ASSUME NEW met, enable_websockets(met) PROVE SInv'
  <2>1. CASE met = Conditions
    BY <1>6, <2>1 DEF enable_websockets, SInv, Places, Unsettled, Writing
  <2>2. CASE met # Conditions
    BY <1>6, <2>2, RespondStep DEF enable_websockets
  <2> QED BY <2>1, <2>2
<1>7. CASE Accepted
  <2>1. /\ pc = "accepting" /\ UNCHANGED <<req_obj, sending>>
        /\ \/ Throw
           \/ pc' = "head" /\ UNCHANGED <<process, replies, frees, misused>>
    BY <1>7 DEF Accepted
  <2>2. CASE pc' = "head" /\ UNCHANGED <<process, replies, frees, misused>>
    BY <2>1, <2>2 DEF SInv, Places, Unsettled, Reading, Writing
  <2> QED BY <2>1, <2>2, ThrowStep
<1>8. CASE read_fails \/ write_fails
  <2>1. pc # "ended" /\ Throw /\ UNCHANGED sending
    BY <1>8 DEF read_fails, write_fails, Resumed, SInv, Places, Writing
  <2> QED BY <2>1, ThrowStep
<1> QED BY <1>1, <1>2, <1>3, <1>4, <1>5, <1>6, <1>7, <1>8, ReadStep, WriteReadyStep, Zenon DEF Next, HandlerStep

\* For any frames and parameters: a Request is used only while
\* dispatch_handle_request has it, is answered, or its connection freed, at
\* most once, and has been when the handler has ended in a living process.
THEOREM RequestsSettled == Spec => []RequestSettled
<1>1. Init => SInv
  <2>1. <<>> \in Seq({})
    OBVIOUS
  <2> QED BY <2>1 DEF Init, SInv, Places, Unsettled
<1>2. SInv /\ [Next]_vars => SInv'
  BY SInvStep
<1>3. SInv => RequestSettled
  BY DEF SInv, Unsettled, RequestSettled
<1> QED BY <1>1, <1>2, <1>3, PTL DEF Spec
=============================================================================
