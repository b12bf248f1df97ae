----------------------------- MODULE HTTPServer -----------------------------
(***************************************************************************)
(* HTTP::Server (Protocols/HTTP/Server.cc) with the request handler of     *)
(* Examples/HTTPWebsocketServer.cc: a request is answered, or converted to *)
(* a websocket whose messages the handler echoes.  One connection, its     *)
(* peer, and the coroutine of the handler; the fields of the frames are    *)
(* the tokens of the streams in both directions.                           *)
(***************************************************************************)
EXTENDS UrlParams, FiniteSets, FiniteSetsExt

CONSTANTS
  Frames,     \* bound: the frames the peer sends, records [op, fin, masked, size]
  Texts,      \* bound: the values of the parameters of a query
  MaxFrames   \* bound: how many frames the peer sends

ASSUME FramesAssumption ==
  \A f \in Frames : f.op \in 0..15 /\ f.fin \in BOOLEAN /\ f.masked \in BOOLEAN /\ f.size \in Nat
ASSUME MaxFramesAssumption == MaxFrames \in Nat

VARIABLES
  process,          \* "up", "terminated" by an exception nobody catches, or "crashed"
  pc,               \* where the handler is: a field it reads, or what it writes or waits for
  req_obj,          \* the Request on the stack of dispatch_handle_request
  replies, frees,   \* calls of evhttp_send_reply and of evhttp_connection_free
  misused,          \* the Request was used after its end
  frame, msg,       \* the frame and the message that read() has so far
  wire,             \* the tokens on their way to the server
  sending, out,     \* the tokens the server has still to write, and has written
  peer,             \* "open", "closed" (the end of the stream follows wire) or "reset"
  sent,             \* history: the frames that the peer sent
  params            \* history: parse_url_params' argument and result

vars == <<process, pc, req_obj, replies, frees, misused, frame, msg, wire, sending, out, peer, sent, params>>
handler == <<process, pc, req_obj, replies, frees, misused, frame, msg, sending>>

NoFrame == [op |-> 0, fin |-> FALSE, masked |-> FALSE, code |-> 0, size |-> 0, key |-> 0]
NoMessage == [opcode |-> 0, size |-> 0, data |-> <<>>]
NoQuery == [query |-> <<>>, value |-> <<>>, result |-> <<>>]
NullQuery == [query |-> <<"null">>, value |-> <<>>, result |-> <<>>]
Malformed == <<"a", "=", "%">>

\* The size of the payload "quit", and of no other payload of the model.
QUIT == 4

Init ==
  /\ process = "up" /\ pc = "idle" /\ req_obj = "none"
  /\ replies = 0 /\ frees = 0 /\ misused = FALSE
  /\ frame = NoFrame /\ msg = NoMessage
  /\ wire = <<>> /\ sending = <<>> /\ out = <<>>
  /\ peer = "open" /\ sent = <<>> /\ params = NoQuery

-----------------------------------------------------------------------------
(* The peer, and the format of a frame *)

Head2(op, fin, masked, code) ==
  <<[f |-> "head", bytes |-> 2, op |-> op, fin |-> fin, masked |-> masked, code |-> code]>>
Size(bytes, n) == <<[f |-> "size", bytes |-> bytes, n |-> n]>>
Mask(key) == <<[f |-> "mask", bytes |-> 4, key |-> key]>>
\* No byte of an empty payload is on the wire.
Data(n, ids, key) == IF n = 0 THEN <<>> ELSE <<[f |-> "data", bytes |-> n, ids |-> ids, key |-> key]>>

\* A frame as RFC 6455 has it; the payload of the masked ones is encoded with
\* their key, the others have key 0.
Tokens(g, ids) ==
  LET key == IF g.masked THEN 1 ELSE 0 IN
  (IF g.size > 65535 THEN Head2(g.op, g.fin, g.masked, 127) \o Size(8, g.size)
   ELSE IF g.size > 125 THEN Head2(g.op, g.fin, g.masked, 126) \o Size(2, g.size)
   ELSE Head2(g.op, g.fin, g.masked, g.size))
  \o (IF g.masked THEN Mask(key) ELSE <<>>) \o Data(g.size, ids, key)

Upgraded == pc \notin {"idle", "handling", "accepting", "ended"}

\* The peer, that has read the 101 response, sends a frame.
SendFrame(g) ==
  /\ Upgraded /\ peer = "open" /\ Len(sent) < MaxFrames
  /\ sent' = Append(sent, g)
  /\ wire' = wire \o Tokens(g, IF g.size = 0 THEN <<>> ELSE <<Len(sent')>>)
  /\ UNCHANGED <<handler, out, peer, params>>

\* The peer closes its end, maybe in the middle of a frame, or breaks the
\* connection.
Close(n) ==
  /\ (Upgraded \/ pc = "accepting") /\ peer = "open"
  /\ peer' = "closed" /\ wire' = SubSeq(wire, 1, n)
  /\ UNCHANGED <<handler, out, sent, params>>
Reset ==
  /\ (Upgraded \/ pc = "accepting") /\ peer # "reset"
  /\ peer' = "reset" /\ wire' = <<>>
  /\ UNCHANGED <<handler, out, sent, params>>

-----------------------------------------------------------------------------
(* The request *)

\* dispatch_handle_request makes the Request and calls handle_request, which
\* runs until it suspends or ends; then the Request is destroyed.
dispatch_handle_request ==
  /\ pc = "idle"
  /\ pc' = "handling" /\ req_obj' = "alive"
  /\ UNCHANGED <<process, replies, frees, misused, frame, msg, wire, sending, out, peer, sent, params>>
dispatch_return ==
  /\ pc # "handling" /\ req_obj = "alive" /\ process = "up"
  /\ req_obj' = "gone"
  /\ UNCHANGED <<process, pc, replies, frees, misused, frame, msg, wire, sending, out, peer, sent, params>>

\* evhttp_send_reply for the Request of the handler, which ends then.
send_response ==
  /\ replies' = replies + 1 /\ misused' = (misused \/ req_obj # "alive")
  /\ pc' = "ended" /\ UNCHANGED frees

\* ~WebsocketClient and close(): the connection, which owns the fd, is freed,
\* and with it its request.
Destroy == frees' = frees + 1 /\ UNCHANGED <<replies, misused>>

\* An exception leaves the handler: its WebsocketClient, if there is one, is
\* destroyed, and DetachedTaskPromise::unhandled_exception terminates.
Throw ==
  /\ process' = "terminated" /\ pc' = "ended"
  /\ IF Upgraded THEN Destroy ELSE UNCHANGED <<replies, frees, misused>>

\* The handler answers at once, as it does for all paths but /stream.
Answer ==
  /\ pc = "handling"
  /\ send_response
  /\ UNCHANGED <<process, req_obj, frame, msg, wire, sending, out, peer, sent, params>>

\* A handler that looks at the parameters first.  A malformed escape is an
\* exception; without a query in the URL a null pointer is followed.
AnswerParams(query, text) ==
  LET result == parse_url_params(query) IN
  /\ pc = "handling"
  /\ params' = [query |-> query, value |-> text, result |-> result]
  /\ IF \E i \in DOMAIN result : Contains(result[i].value, Exception)
     THEN Throw
     ELSE send_response /\ UNCHANGED process
  /\ UNCHANGED <<req_obj, frame, msg, wire, sending, out, peer, sent>>
AnswerNoQuery ==
  /\ pc = "handling"
  /\ process' = "crashed" /\ pc' = "ended" /\ params' = NullQuery
  /\ UNCHANGED <<req_obj, replies, frees, misused, frame, msg, wire, sending, out, peer, sent>>

\* The conditions of enable_websockets.
Conditions == {"GET", "Connection: upgrade", "Upgrade: websocket", "Sec-WebSocket-Key"}

\* The handler of /stream: enable_websockets returns nullptr before it suspends
\* and the handler answers, or it suspends to write the response.
enable_websockets(met) ==
  /\ pc = "handling"
  /\ IF met = Conditions THEN pc' = "accepting" /\ UNCHANGED <<replies, frees, misused>>
     ELSE send_response
  /\ UNCHANGED <<process, req_obj, frame, msg, wire, sending, out, peer, sent, params>>

\* The event loop runs, and resumes the handler.
Resumed == process = "up" /\ req_obj = "gone"

\* The 101 response has been written, the WebsocketClient made, and the handler
\* calls read(); or the write fails.
Accepted ==
  /\ Resumed /\ pc = "accepting"
  /\ \/ peer # "reset" /\ pc' = "head" /\ UNCHANGED <<process, replies, frees, misused>>
     \/ peer = "reset" /\ Throw
  /\ UNCHANGED <<req_obj, frame, msg, wire, sending, out, peer, sent, params>>

-----------------------------------------------------------------------------
(* WebsocketClient *)

\* Mutation of Encoded: 65536 bytes are announced in the two-byte form.
Encoded_Wide(op, size) ==
  IF size > 65536 THEN Head2(op, TRUE, FALSE, 127) \o Size(8, size)
  ELSE IF size > 125 THEN Head2(op, TRUE, FALSE, 126) \o Size(2, size % 65536)
  ELSE Head2(op, TRUE, FALSE, size)

\* The header of an outgoing frame.
Encoded(op, size) ==
  IF size > 65535 THEN Head2(op, TRUE, FALSE, 127) \o Size(8, size)
  ELSE IF size > 125 THEN Head2(op, TRUE, FALSE, 126) \o Size(2, size % 65536)
  ELSE Head2(op, TRUE, FALSE, size)

\* write(), called at a place of the handler or of read(), suspends.
write(op, size, data, place) ==
  /\ sending' = Encoded(op, size) \o Data(size, data, 0)
  /\ pc' = place
  /\ UNCHANGED <<process, replies, frees, misused>>

\* read() waits for the next field.
Await(field) == pc' = field /\ UNCHANGED <<process, replies, frees, misused, sending>>

\* The frame has been read.
Payload(g, data) ==
  \/ g.op = 10 /\ Await("head") /\ UNCHANGED msg
  \/ g.op = 8 /\ write(8, g.size, data, "closing") /\ UNCHANGED msg
  \/ g.op = 9 /\ write(10, g.size, data, "ponging") /\ UNCHANGED msg
  \/ g.op > 10 /\ Throw /\ UNCHANGED <<msg, sending>>
  \/ /\ g.op < 8 /\ (msg.opcode = 0) = (g.op = 0)
     /\ Throw /\ UNCHANGED <<msg, sending>>
  \/ /\ g.op < 8 /\ (msg.opcode = 0) # (g.op = 0)
     /\ msg' = [opcode |-> IF g.op # 0 THEN g.op ELSE msg.opcode,
                size |-> msg.size + g.size, data |-> msg.data \o data]
     /\ IF g.fin THEN write(1, msg'.size, msg'.data, "echoing") ELSE Await("head")

\* Mutation of BeforePayload: an empty payload is waited for.
BeforePayload_Wait(g) == Await("data") /\ UNCHANGED msg

\* Everything before the payload has been read; an empty one is not waited for.
BeforePayload(g) ==
  IF g.size = 0 THEN Payload(g, <<>>) ELSE Await("data") /\ UNCHANGED msg

\* The field that read() waits for is there.  Its number of bytes is the one
\* that read() removes.
Field(name, bytes) ==
  /\ Resumed /\ pc = name /\ peer # "reset" /\ wire # <<>>
  /\ Head(wire).f = name /\ Head(wire).bytes = bytes
  /\ wire' = Tail(wire)
  /\ UNCHANGED <<req_obj, out, peer, sent, params>>

read_head ==
  /\ Field("head", 2)
  /\ LET h == Head(wire) IN
     /\ frame' = [op |-> h.op, fin |-> h.fin, masked |-> h.masked, code |-> h.code, size |-> h.code, key |-> 0]
     /\ IF h.code >= 126 THEN Await("size") /\ UNCHANGED msg
        ELSE IF h.masked THEN Await("mask") /\ UNCHANGED msg
        ELSE BeforePayload(frame')

read_size ==
  /\ Field("size", IF frame.code = 127 THEN 8 ELSE 2)
  /\ frame' = [frame EXCEPT !.size = Head(wire).n]
  /\ IF frame.masked THEN Await("mask") /\ UNCHANGED msg ELSE BeforePayload(frame')

read_mask ==
  /\ Field("mask", 4)
  /\ frame' = [frame EXCEPT !.key = Head(wire).key]
  /\ BeforePayload(frame')

\* Unmasking encodes the payload with the key once more; what is not decoded
\* is no payload of the peer's.
read_data ==
  /\ Field("data", frame.size)
  /\ UNCHANGED frame
  /\ Payload(frame, IF (Head(wire).key + frame.key) % 2 = 0 THEN Head(wire).ids ELSE <<0>>)

\* The stream ends before the field is complete, or fails: read_to throws.
read_fails ==
  /\ Resumed /\ pc \in {"head", "size", "mask", "data"}
  /\ peer = "reset" \/ (peer = "closed" /\ wire = <<>>)
  /\ Throw
  /\ UNCHANGED <<req_obj, frame, msg, wire, sending, out, peer, sent, params>>

\* Mutation of Written: the handler goes on with the message it has answered.
Written_Kept ==
  \/ pc = "ponging" /\ pc' = "head" /\ UNCHANGED <<process, replies, frees, misused, msg>>
  \/ pc = "closing" /\ Throw /\ UNCHANGED msg
  \/ pc = "echoing" /\ msg.size = QUIT /\ pc' = "ended" /\ Destroy /\ UNCHANGED <<process, msg>>
  \/ /\ pc = "echoing" /\ msg.size # QUIT /\ pc' = "head"
     /\ UNCHANGED <<process, replies, frees, misused, msg>>

\* Mutation of Written: after "quit" nothing destroys the client.
Written_Leaked ==
  \/ pc = "ponging" /\ pc' = "head" /\ UNCHANGED <<process, replies, frees, misused, msg>>
  \/ pc = "closing" /\ Throw /\ UNCHANGED msg
  \/ /\ pc = "echoing" /\ pc' = IF msg.size = QUIT THEN "ended" ELSE "head"
     /\ msg' = NoMessage /\ UNCHANGED <<process, replies, frees, misused>>

\* What write() was called for goes on: read() with the next frame or with its
\* exception, the handler with the next message or, after "quit", its end.
Written ==
  \/ pc = "ponging" /\ pc' = "head" /\ UNCHANGED <<process, replies, frees, misused, msg>>
  \/ pc = "closing" /\ Throw /\ UNCHANGED msg
  \/ pc = "echoing" /\ msg.size = QUIT /\ pc' = "ended" /\ Destroy /\ UNCHANGED <<process, msg>>
  \/ /\ pc = "echoing" /\ msg.size # QUIT /\ pc' = "head" /\ msg' = NoMessage
     /\ UNCHANGED <<process, replies, frees, misused>>

\* Some of the frame is written, or the rest of it.
on_write_ready ==
  /\ Resumed /\ sending # <<>> /\ peer # "reset"
  /\ out' = Append(out, Head(sending)) /\ sending' = Tail(sending)
  /\ IF Len(sending) = 1 THEN Written ELSE UNCHANGED <<process, pc, replies, frees, misused, msg>>
  /\ UNCHANGED <<req_obj, frame, wire, peer, sent, params>>

\* The write fails, and throws.
write_fails ==
  /\ Resumed /\ sending # <<>> /\ peer = "reset"
  /\ Throw
  /\ UNCHANGED <<req_obj, frame, msg, wire, sending, out, peer, sent, params>>

HandlerStep ==
  \/ Accepted \/ read_head \/ read_size \/ read_mask \/ read_data \/ read_fails
  \/ on_write_ready \/ write_fails

Next ==
  \/ dispatch_handle_request \/ dispatch_return
  \/ Answer \/ AnswerNoQuery
  \/ AnswerParams(Malformed, <<>>)
  \/ \E text \in Texts : \E value \in Encodings(text) :
       AnswerParams(<<"a", "=">> \o value \o <<"&", "a">>, text)
  \/ \E met \in SUBSET Conditions : enable_websockets(met)
  \/ HandlerStep
  \/ \E g \in Frames : SendFrame(g)
  \/ \E n \in 0..Len(wire) : Close(n)
  \/ Reset

\* The event loop resumes a handler whose fd is ready.
Spec == Init /\ [][Next]_vars /\ WF_vars(dispatch_return) /\ WF_vars(HandlerStep)

-----------------------------------------------------------------------------
(* What the peer is to be answered, by RFC 6455 and the example *)

\* The data frames among the first n.
DataFrames(n) == {j \in 1..n : sent[j].op < 8}

\* Is a message incomplete when frame i comes?
Incomplete(i) == DataFrames(i - 1) # {} /\ ~sent[Max(DataFrames(i - 1))].fin

\* A data frame that does not continue a message although one is incomplete, or
\* continues one when none is; an unknown control frame.
Invalid(i) == IF sent[i].op < 8 THEN (sent[i].op = 0) # Incomplete(i) ELSE sent[i].op > 10

\* The frames of the message that frame i completes.
Message(i) == {j \in DataFrames(i) : \A k \in DataFrames(i) : k > j => sent[k].op = 0}
MessageSize(i) == MapThenSumSet(LAMBDA j : sent[j].size, Message(i))
Complete(i) == sent[i].op < 8 /\ sent[i].fin

\* Frame i is the last that is answered.
Final(i) == Invalid(i) \/ sent[i].op = 8 \/ (Complete(i) /\ MessageSize(i) = QUIT)

Reply(op, size, ids) == Tokens([op |-> op, fin |-> TRUE, masked |-> FALSE, size |-> size], ids)
Contents(S) == SetToSortSeq({j \in S : sent[j].size > 0}, <)

AnswerTo(i) ==
  IF Invalid(i) \/ sent[i].op = 10 THEN <<>>
  ELSE IF sent[i].op = 8 THEN Reply(8, sent[i].size, Contents({i}))
  ELSE IF sent[i].op = 9 THEN Reply(10, sent[i].size, Contents({i}))
  ELSE IF Complete(i) THEN Reply(1, MessageSize(i), Contents(Message(i)))
  ELSE <<>>

Answers ==
  LET upto[i \in 0..Len(sent)] ==
        IF i = 0 THEN <<>>
        ELSE LET prev == upto[i - 1] IN IF \E j \in 1..i - 1 : Final(j) THEN prev ELSE prev \o AnswerTo(i)
  IN upto[Len(sent)]

-----------------------------------------------------------------------------
(* Properties *)

\* The peer gets the answers to its frames, whole, decodable and in order: each
\* message, however fragmented and whatever control frames are among its
\* frames, is echoed once, and each ping and close is answered (read, write).
AnswersFaithful == IsPrefix(out, Answers)

\* While the peer stays all answers arrive (read, write, the handler's loop).
AllAnswered == out # Answers ~> out = Answers \/ peer # "open"

\* The Request that dispatch_handle_request has on its stack is used by nobody
\* after dispatch_handle_request has returned, the request is answered or its
\* connection freed at most once, and has been when the handler has ended in a
\* living process, as the comment at handle_request demands.
RequestSettled ==
  /\ ~misused /\ replies + frees <= 1
  /\ pc = "ended" /\ process = "up" => replies + frees = 1

\* The connection broke while enable_websockets wrote the 101 response.  It
\* throws then, and does not return nullptr as the comment at it says.
FailedUpgrade == peer = "reset" /\ frees = 0

\* The process, which an exception of a handler terminates, survives everything
\* but these: a query that is missing or malformed; a break of the connection of
\* a websocket; the end of the stream, once all that came before has been read;
\* and a close frame or an invalid one, once it and all before it have been
\* answered (the exceptions of read and write).  FailedUpgrade is the one
\* exception that the code's own comments exclude.
ValidInputSurvives ==
  /\ process = "crashed" => params = NullQuery
  /\ process = "terminated" =>
       \/ params.query = Malformed \/ FailedUpgrade
       \/ frees = 1 /\ (peer = "reset" \/ (peer = "closed" /\ wire = <<>>))
       \/ out = Answers /\ \E i \in DOMAIN sent : Invalid(i) \/ sent[i].op = 8

\* The parameters are those that the client encoded, in whatever form, unless a
\* plus comes after an escape in a value (parse_url_params, in place).
ParamsDecoded ==
  params # NoQuery /\ process = "up" /\ ~PlusAfterEscape(params.query) =>
    params.result = <<[name |-> <<"a">>, value |-> params.value], [name |-> <<"a">>, value |-> <<>>]>>
=============================================================================
