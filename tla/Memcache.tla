------------------------------ MODULE Memcache ------------------------------
(***************************************************************************)
(* Memcache::Client: coroutines, each with a client and a connection of    *)
(* its own, call its methods one after the other on one memcached.  A      *)
(* method writes a request, reads the 24 bytes of a response header, then  *)
(* the body that the header announces, and decides from the status what    *)
(* to return or to throw.  The connection may fail at any moment.  The     *)
(* stream of a connection is a sequence of headers and of pieces of bodies *)
(* (the flags, the key or the value), which stand for their bytes.         *)
(***************************************************************************)
EXTENDS Integers, Sequences

CONSTANTS
  Clients,
  Keys,
  Top,         \* the largest value of a counter
  Entries,     \* how many statistics the server has
  MaxCalls,    \* bound: commands called in all
  MaxSessions, \* bound: connections made in all
  MaxFaults    \* bound: connections that fail

ASSUME TopAssumption == Top \in Nat \ {0}

ASSUME EntriesAssumption == Entries \in Nat

VARIABLES
  fd,                \* of each client, whether Client::fd is open
  link,              \* of each client, its connection: "none", "up" or "lost"
  requests,          \* of each client, what is on its way to the server
  responses,         \* of each client, what is on its way back
  call,              \* of each client, the method in progress
  given,             \* of each client, the result of its last method
  store, cas,        \* the server's items and its last cas value
  orphans,           \* requests of failed connections, still on their way
  due,               \* history: what the call in progress should return
  calls, sessions, faults

conn == <<fd, link>>
server == <<store, cas>>
counts == <<calls, sessions, faults>>
vars == <<conn, requests, responses, call, given, server, orphans, due, counts>>

Text == -1
Result(says, val, n) == [says |-> says, val |-> val, cas |-> n]
Threw == Result("threw", 0, 0)
Done == Result("done", 0, 0)
Undecided == Result("undecided", 0, 0)
Idle == [pc |-> "idle"]

-----------------------------------------------------------------------------
(* The requests: what the methods put into the header and the extras, and  *)
(* the error codes that they expect                                        *)

Request(op, key, val, n, initial, create, expected) ==
  [op |-> op, key |-> key, val |-> val, cas |-> n, initial |-> initial,
   create |-> create, expected |-> expected]

Plain(op, key, expected) == Request(op, key, 0, 0, 0, FALSE, expected)

get(k, expiration_secs) ==
  Plain(IF expiration_secs THEN "GetAndTouch" ELSE "Get", k, {"KEY_NOT_FOUND"})

write_key(op, k, v, n, expected) == Request(op, k, v, n, 0, FALSE, expected)

set(k, v, n) == write_key("Set", k, v, n, {"KEY_EXISTS"})

add(k, v) == write_key("Add", k, v, 0, {"KEY_EXISTS"})

\* Mutation of replace: the status of a missing key is not expected.
replace_Codes(k, v, n) == write_key("Replace", k, v, n, {"KEY_EXISTS"})

replace(k, v, n) == write_key("Replace", k, v, n, {"KEY_NOT_FOUND", "KEY_EXISTS"})

delete_key(k, n) == Request("Delete", k, 0, n, 0, FALSE, {"KEY_EXISTS"})

\* The largest 64-bit value stands for an initial value that is not given.
increment(k, delta, initial_value, create, decrement) ==
  Request(IF decrement THEN "Decrement" ELSE "Increment", k, delta, 0,
          IF initial_value = Top THEN delta ELSE initial_value, create, {"KEY_NOT_FOUND"})

append(k, prepend) == Plain(IF prepend THEN "Prepend" ELSE "Append", k, {})

flush == Plain("Flush", "none", {})

noop == Plain("NoOp", "none", {})

version == Plain("Version", "none", {})

stats == Plain("Stat", "none", {})

touch(k) == Plain("Touch", k, {})

\* The calls that the coroutines make; the cas value of the first item is 1.
Requests ==
  {flush, noop, version, stats}
  \cup (UNION {{get(k, e), append(k, e), set(k, IF e THEN Text ELSE 1, 0), add(k, Text), touch(k)} :
                 k \in Keys, e \in BOOLEAN})
  \cup (UNION {{set(k, Text, 1), replace(k, Text, n), delete_key(k, n)} : k \in Keys, n \in {0, 1}})
  \cup {increment(k, 1, i, i = Top, d) : k \in Keys, i \in {0, Top}, d \in BOOLEAN}

\* The abstract store: a call is effective once the server has handled it.
KV == INSTANCE KeyValue WITH
  broken   <- {c \in Clients : link[c] # "up"},
  pending  <- [c \in Clients |->
                 IF call[c] = Idle THEN [phase |-> "none"]
                 ELSE IF due[c] # Undecided THEN [phase |-> "effective", result |-> due[c]]
                 ELSE [phase |-> "called", r |-> call[c].r]]

-----------------------------------------------------------------------------
(* The server and the network *)

Header(status, extras, key, n, size) ==
  [unit |-> "header", status |-> status, extras_size |-> extras, key_size |-> key,
   body_size |-> size, cas |-> n]

Piece(val) == [unit |-> "body", val |-> val]

\* A response: its header, and the pieces of its body.
Packet(status, extras, key, n, body) ==
  <<Header(status, extras, key, n, Len(body))>> \o [i \in 1..Len(body) |-> Piece(body[i])]

\* The statistics: a response with a key and a value for each, and one without
\* a body at the end.
Statistics ==
  [p \in 1..3 * Entries + 1 |->
     CASE p > 3 * Entries -> Header("OK", 0, 0, 0, 0)
       [] p <= 3 * Entries /\ p % 3 = 1 -> Header("OK", 0, 1, 0, 2)
       [] p % 3 = 2 -> Piece(p \div 3 + 1)
       [] OTHER     -> Piece(Text)]

Answer(r) ==
  LET status == KV!Status(store, r)
      item == store[r.key]
  IN  IF status # "OK" THEN Packet(status, 0, 0, 0, <<Text>>)
      ELSE CASE r.op \in {"Get", "GetAndTouch"} -> Packet("OK", 1, 0, item.cas, <<0, item.val>>)
             [] r.op \in {"Increment", "Decrement"} -> Packet("OK", 0, 0, cas + 1, <<KV!Count(store, r)>>)
             [] r.op = "Version" -> Packet("OK", 0, 0, 0, <<Text>>)
             [] r.op = "Stat" -> Statistics
             [] OTHER -> Packet("OK", 0, 0, cas + 1, <<>>)

Serve(c) ==
  /\ link[c] = "up" /\ requests[c] # <<>>
  /\ LET r == Head(requests[c])
     IN  /\ store' = KV!After(store, r, cas + 1)
         /\ cas' = cas + 1
         /\ responses' = [responses EXCEPT ![c] = @ \o Answer(r)]
         /\ due' = [due EXCEPT ![c] = KV!Meaning(store, r)]
  /\ requests' = [requests EXCEPT ![c] = Tail(@)]
  /\ UNCHANGED <<conn, call, given, orphans, counts>>

\* OUT_OF_MEMORY, BUSY, INTERNAL_ERROR and the like.
Refuse(c) ==
  /\ link[c] = "up" /\ requests[c] # <<>>
  /\ responses' = [responses EXCEPT ![c] = @ \o Packet("BUSY", 0, 0, 0, <<Text>>)]
  /\ due' = [due EXCEPT ![c] = Threw]
  /\ requests' = [requests EXCEPT ![c] = Tail(@)]
  /\ UNCHANGED <<conn, call, given, server, orphans, counts>>

\* A connection fails: part of what was on its way back is lost, what was on
\* its way to the server may arrive there or not.
Lose(c) ==
  /\ link[c] = "up" /\ faults < MaxFaults
  /\ link' = [link EXCEPT ![c] = "lost"]
  /\ \E n \in 0..Len(responses[c]) : responses' = [responses EXCEPT ![c] = SubSeq(@, 1, n)]
  /\ \E late \in BOOLEAN : orphans' = IF late THEN orphans \o requests[c] ELSE orphans
  /\ requests' = [requests EXCEPT ![c] = <<>>]
  /\ faults' = faults + 1
  /\ UNCHANGED <<fd, call, given, server, due, calls, sessions>>

ServeLate ==
  \E i \in DOMAIN orphans :
    /\ store' = KV!After(store, orphans[i], cas + 1)
    /\ cas' = cas + 1
    /\ orphans' = SubSeq(orphans, 1, i - 1) \o SubSeq(orphans, i + 1, Len(orphans))
    /\ UNCHANGED <<conn, requests, responses, call, given, due, counts>>

-----------------------------------------------------------------------------
(* The client *)

\* The method of c ends with result x.
End(c, x) ==
  /\ call' = [call EXCEPT ![c] = Idle]
  /\ given' = [given EXCEPT ![c] = x]
  /\ due' = [due EXCEPT ![c] = Undecided]

\* connect() does nothing when fd is open.  Base::connect throws when there is
\* no address or no socket ("none").  It does not look at SO_ERROR: the socket
\* that it gives may be one that did not connect ("lost").
connect(c) ==
  /\ call[c] = Idle /\ ~fd[c] /\ sessions < MaxSessions
  /\ sessions' = sessions + 1
  /\ \E l \in {"up", "lost", "none"} :
       /\ l = "up" \/ faults < MaxFaults
       /\ link' = [link EXCEPT ![c] = l]
       /\ fd' = [fd EXCEPT ![c] = l # "none"]
       /\ faults' = IF l = "up" THEN faults ELSE faults + 1
  /\ UNCHANGED <<requests, responses, call, given, server, orphans, due, calls>>

\* quit() does nothing when fd is closed.  If the write of the request fails it
\* throws past close().
quit(c) ==
  /\ call[c] = Idle /\ fd[c]
  /\ \/ /\ fd' = [fd EXCEPT ![c] = FALSE]
        /\ link' = [link EXCEPT ![c] = "none"]
        /\ responses' = [responses EXCEPT ![c] = <<>>]
     \/ link[c] = "lost" /\ UNCHANGED <<conn, responses>>
  /\ UNCHANGED <<requests, call, given, server, orphans, due, counts>>

assert_conn_open(c) == fd[c]

\* A command begins: it throws if fd is closed, or writes its request.  A lost
\* connection may take the bytes or give an error.
command(c, r) ==
  /\ call[c] = Idle /\ calls < MaxCalls /\ r.cas <= cas
  /\ calls' = calls + 1
  /\ \/ /\ assert_conn_open(c)
        /\ requests' = IF link[c] = "up" THEN [requests EXCEPT ![c] = Append(@, r)] ELSE requests
        /\ call' = [call EXCEPT ![c] = [pc |-> "header", r |-> r, read |-> 0]]
        /\ UNCHANGED <<given, due>>
     \/ /\ ~assert_conn_open(c) \/ link[c] = "lost"
        /\ End(c, Threw)
        /\ UNCHANGED requests
  /\ UNCHANGED <<conn, responses, server, orphans, sessions, faults>>

\* co_await buf.read_to(fd, n) gives n units or throws at the end of the
\* stream, as BufferIO shows.
read_to(c, n) ==
  /\ Len(responses[c]) >= n
  /\ responses' = [responses EXCEPT ![c] = SubSeq(@, n + 1, Len(@))]

read_eof(c, n) ==
  /\ Len(responses[c]) < n /\ link[c] = "lost"
  /\ responses' = [responses EXCEPT ![c] = <<>>]
  /\ End(c, Threw)

\* read_response_header, first part: a header must come first.
response_header(c) ==
  /\ call[c].pc = "header"
  /\ \/ /\ read_to(c, 1)
        /\ IF Head(responses[c]).unit # "header" THEN End(c, Threw)
           ELSE /\ call' = [call EXCEPT ![c] = [pc |-> "body", r |-> call[c].r, read |-> call[c].read,
                                                header |-> Head(responses[c])]]
                /\ UNCHANGED <<given, due>>
     \/ read_eof(c, 1)
  /\ UNCHANGED <<conn, requests, server, orphans, counts>>

\* What the methods make of an answer with status OK, whose body is b.
GetResult(h, b) == IF h.extras_size # 1 THEN Threw ELSE Result("found", b[2].val, h.cas)

WriteResult(h) == IF h.body_size # 0 THEN Threw ELSE Result("true", 0, 0)

CountResult(h, b) == IF h.body_size # 1 THEN Threw ELSE Result("number", b[1].val, 0)

Accepted(r, h, b) ==
  CASE r.op \in {"Get", "GetAndTouch"}              -> GetResult(h, b)
    [] r.op \in {"Set", "Add", "Replace", "Delete"} -> WriteResult(h)
    [] r.op \in {"Increment", "Decrement"}          -> CountResult(h, b)
    [] r.op = "Version"                             -> Result("text", b[1].val, 0)
    [] OTHER                                        -> Done

\* What they make of an error: increment throws out_of_range if it was expected.
Refused(r, h) ==
  IF h.status \notin r.expected \/ r.op \in {"Increment", "Decrement"} THEN Threw
  ELSE Result(IF r.op \in {"Get", "GetAndTouch"} THEN "missing" ELSE "false", 0, 0)

\* Mutation of StatsMore: stats() reads one response, as the others do.
StatsMore_One(h) == FALSE

\* Mutation of StatsMore: the response without a body is not noticed.
StatsMore_Always(h) == h.status = "OK" /\ h.extras_size = 0

\* stats() goes on until a response without a body.
StatsMore(h) == h.status = "OK" /\ h.extras_size = 0 /\ h.body_size # 0

\* read_response_header, second part, and the rest of the method.
response_body(c) ==
  /\ call[c].pc = "body"
  /\ LET h == call[c].header
         r == call[c].r
     IN  \/ /\ read_to(c, h.body_size)
            /\ IF r.op = "Stat" /\ StatsMore(h)
               THEN /\ call' = [call EXCEPT ![c] = [pc |-> "header", r |-> r, read |-> call[c].read + 1]]
                    /\ UNCHANGED <<given, due>>
               ELSE IF h.status # "OK" THEN End(c, Refused(r, h))
               ELSE IF r.op = "Stat"
               THEN End(c, IF h.extras_size # 0 THEN Threw ELSE Result("entries", call[c].read, 0))
               ELSE End(c, Accepted(r, h, responses[c]))
         \/ read_eof(c, h.body_size)
  /\ UNCHANGED <<conn, requests, server, orphans, counts>>

Init ==
  /\ fd = [c \in Clients |-> FALSE] /\ link = [c \in Clients |-> "none"]
  /\ requests = [c \in Clients |-> <<>>] /\ responses = [c \in Clients |-> <<>>]
  /\ call = [c \in Clients |-> Idle] /\ given = [c \in Clients |-> Done]
  /\ cas = 1
  /\ \E S \in SUBSET Keys : store = [k \in S |-> [val |-> Top, cas |-> 1]]
  /\ orphans = <<>>
  /\ due = [c \in Clients |-> Undecided]
  /\ calls = 0 /\ sessions = 0 /\ faults = 0

Step(c) == response_header(c) \/ response_body(c)

Next ==
  \/ \E c \in Clients : \/ connect(c) \/ quit(c) \/ \E r \in Requests : command(c, r)
                        \/ Step(c)
                        \/ Serve(c) \/ Refuse(c) \/ Lose(c)
  \/ ServeLate

\* The event loop runs what is ready, and the server answers.
Spec ==
  /\ Init /\ [][Next]_vars
  /\ \A c \in Clients : WF_vars(Step(c)) /\ WF_vars(Serve(c) \/ Refuse(c))

-----------------------------------------------------------------------------
(* Properties *)

\* Seen by its callers, the client is the store of KeyValue: each call takes
\* effect once and returns what it meant when it did, it throws only if the
\* server refused or the connection failed, and what a failed call had sent
\* takes effect at most once (every method of Memcache::Client).
ImplementsStore == KV!Spec

\* Nothing of one call is left for the next one, whether it returned or threw
\* because of a status (read_response_header, stats): an idle client has no
\* request and no part of a response on its connection.
StreamInSync ==
  \A c \in Clients : call[c] = Idle /\ link[c] = "up" => requests[c] = <<>> /\ responses[c] = <<>>

\* Every method ends, also when the connection fails in the middle of it.
CallEnds == \A c \in Clients : call[c] # Idle ~> call[c] = Idle
=============================================================================
