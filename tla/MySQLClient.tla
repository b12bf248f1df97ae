----------------------------- MODULE MySQLClient -----------------------------
(***************************************************************************)
(* MySQL::Client: one coroutine connects, logs in, runs queries and reads  *)
(* binlogs on one server.  Every message is a command with a sequence      *)
(* number that both sides count from 0 at each new request, in one byte.   *)
(* The server answers a query with one result per statement, each an OK,   *)
(* an ERR or a count of columns followed by columns, rows and an EOF.      *)
(***************************************************************************)
EXTENDS Integers, Sequences

CONSTANTS
  SEQ,         \* how many sequence numbers there are (256)
  Columns,     \* how many columns a result with rows has
  MaxRows,     \* bound: rows of a result
  MaxScript,   \* bound: statements of one query
  MaxEvents,   \* bound: events of one binlog stream
  MaxCalls,    \* bound: queries and the like in all
  MaxConnects, \* bound: calls of connect in all
  MaxFaults    \* bound: connections that fail

ASSUME SEQAssumption == SEQ \in Nat \ {0}
ASSUME ColumnsAssumption == Columns \in Nat \ {0}
ASSUME RowsAssumption == MaxRows \in Nat

VARIABLES
  fd, next_seq, binlog_read_state,  \* members of Client
  call,       \* the method in progress: what it waits for, and its locals
  outcome,    \* how the last method ended
  link,       \* the connection: "none", "up", or "lost" (also closed by the server)
  session,    \* the server: "none", "login" or "ready"
  job, seq,   \* what the server is to send next, and with which sequence number
  up, down,   \* what is on its way to the server, and to the client
  calls, connects, faults,
  got,        \* history: the events of the stream that the client returned
  unread      \* history: what may still come for a method that has ended: "nothing",
              \* the rest of an "answer" after an exception, or a binlog "stream"

client == <<fd, next_seq, binlog_read_state>>
server == <<session, job, seq>>
history == <<got, unread>>
vars == <<client, call, outcome, link, server, up, down, calls, connects, faults, history>>

-----------------------------------------------------------------------------
(* The server *)

\* What a statement gives: affected rows, without or with a text of
\* information; an error; a number of rows; or rows that end with an error.
Statements ==
  [kind : {"ok", "info", "err"}, rows : {0}]
  \cup [kind : {"rows"}, rows : {0, MaxRows}] \cup [kind : {"killed"}, rows : {1}]

Scripts == UNION {[1..n -> Statements] : n \in 1..MaxScript}

\* A command of the server; more is MORE_RESULTS_EXIST, extra says that there
\* is something after the fields that the client reads, n is a number in it.
Packet(first, more, extra, n) == [first |-> first, more |-> more, extra |-> extra, n |-> n]
Simple(first) == Packet(first, FALSE, FALSE, 0)

\* A job of the server: what it sends next, at which statement of the script,
\* and after how many columns, rows or events.
Job(at, i, rows, script) == [at |-> at, i |-> i, rows |-> rows, script |-> script]
Do(at) == Job(at, 0, 0, <<>>)
Rest == Do("rest")

\* The statement of job j; after an error none runs.
Statement(j) == j.script[j.i]
More(j) == Statement(j).kind \notin {"err", "killed"} /\ j.i < Len(j.script)

\* What is sent for a statement: an OK, an ERR, or the number of columns, the
\* columns, the rows, and an EOF or an ERR.
ResultPacket(j) ==
  LET st == Statement(j) IN
  IF j.at = "column" THEN Simple("column")
  ELSE IF j.at = "row" THEN IF j.rows < st.rows THEN Simple("row")
                            ELSE IF st.kind = "rows" THEN Packet("EOF", More(j), TRUE, 0) ELSE Simple("ERR")
  ELSE IF st.kind = "err" THEN Simple("ERR")
  ELSE IF st.kind \in {"rows", "killed"} THEN Packet("columns", FALSE, FALSE, Columns)
  ELSE Packet("OK", More(j), st.kind = "info", 0)

AfterResult(j) ==
  LET st == Statement(j) IN
  IF j.at = "result" /\ st.kind \in {"rows", "killed"} THEN Job("column", j.i, 0, j.script)
  ELSE IF j.at = "column" /\ j.rows + 1 < Columns THEN Job("column", j.i, j.rows + 1, j.script)
  ELSE IF j.at = "column" THEN Job("row", j.i, 0, j.script)
  ELSE IF j.at = "row" /\ j.rows < st.rows THEN Job("row", j.i, j.rows + 1, j.script)
  ELSE IF More(j) THEN Job("result", j.i + 1, 0, j.script)
  ELSE Rest

\* The server reads a command; a client that is not logged in gets an error
\* whatever it asks.
Serve ==
  /\ link = "up" /\ job = Rest /\ up # <<>>
  /\ up' = Tail(up)
  /\ LET r == Head(up)
     IN  /\ seq' = (r.seq + 1) % SEQ
         /\ job' = IF session = "login" THEN Do(IF r.op = "login" THEN "auth" ELSE "refuse")
                   ELSE IF r.op = "query" THEN Job("result", 1, 0, r.script)
                   ELSE Do(IF r.op = "dump" THEN "event" ELSE "ok")
  /\ UNCHANGED <<client, call, outcome, link, session, down, calls, connects, faults, history>>

\* A command is on its way, tagged with the job that it was sent for; the
\* server goes on with job j.
Send(p, j) ==
  /\ down' = Append(down, [p |-> p, seq |-> seq, job |-> job]) /\ job' = j
  /\ seq' = (seq + 1) % SEQ
  /\ UNCHANGED <<client, call, outcome, up, calls, connects, faults, history>>

\* The next command of an answer.  A login is answered with or without "fast
\* authentication succeeded", with a request for more, or with an error, after
\* which the server disconnects.
SendAnswer ==
  /\ link = "up"
  /\ \/ /\ job.at = "greeting" /\ UNCHANGED <<session, link>>
        /\ \E version \in {10, 9} : Send(Packet("greeting", FALSE, FALSE, version), Rest)
     \/ /\ job.at \in {"auth", "fast"} /\ session' = "ready" /\ UNCHANGED link
        /\ Send(Simple("OK"), Rest)
     \/ /\ job.at = "auth" /\ UNCHANGED <<session, link>>
        /\ \/ Send(Packet("AUTH", FALSE, FALSE, 3), Do("fast"))
           \/ Send(Packet("AUTH", FALSE, FALSE, 4), Rest)
     \/ /\ job.at \in {"auth", "refuse"} /\ session' = "none" /\ link' = "lost"
        /\ Send(Simple("ERR"), Rest)
     \/ /\ job.at = "ok" /\ UNCHANGED <<session, link>>
        /\ \E first \in {"OK", "ERR"} : Send(Simple(first), Rest)
     \/ /\ job.at \in {"result", "column", "row"} /\ UNCHANGED <<session, link>>
        /\ Send(ResultPacket(job), AfterResult(job))

\* The next event of a binlog stream; the first one is artificial and has no
\* checksum, the others have one (extra).  Or the stream ends, or the server
\* gives it up with an error.
SendEvent ==
  /\ link = "up" /\ job.at = "event"
  /\ \/ /\ job.rows < MaxEvents
        /\ Send(Packet("OK", FALSE, job.rows > 0, job.rows + 1), [job EXCEPT !.rows = @ + 1])
     \/ \E first \in {"EOF", "ERR"} : Send(Simple(first), Rest)
  /\ UNCHANGED <<session, link>>

\* The connection fails, with some of what was on its way.
Lose ==
  /\ link = "up" /\ faults < MaxFaults
  /\ link' = "lost" /\ session' = "none" /\ job' = Rest /\ up' = <<>>
  /\ \E n \in 0..Len(down) : down' = SubSeq(down, 1, n)
  /\ faults' = faults + 1
  /\ UNCHANGED <<client, call, outcome, seq, calls, connects, history>>

-----------------------------------------------------------------------------
(* The client *)

\* A method in progress waits for a command; left says that the buffer of its
\* last command is not empty.
Idle == [wait |-> "none", op |-> "none", left |-> FALSE, columns |-> 0, rows |-> 0,
         ret |-> <<>>, script |-> <<>>]
Waiting(op, wait) == [Idle EXCEPT !.op = op, !.wait = wait]

Outcome(op, how, ret, script) == [op |-> op, how |-> how, ret |-> ret, script |-> script]

End(how) == outcome' = Outcome(call.op, how, call.ret, call.script) /\ call' = Idle

Nothing == Outcome("none", "none", <<>>, <<>>)

Refuse(op, how) == outcome' = Outcome(op, how, <<>>, <<>>)

May == call = Idle /\ calls < MaxCalls /\ calls' = calls + 1

\* connect() returns at once when fd is open; Base::connect may throw.
connect ==
  /\ call = Idle /\ connects < MaxConnects
  /\ connects' = connects + 1
  /\ \/ /\ fd /\ Refuse("connect", "returned")
        /\ UNCHANGED <<client, call, link, server, faults>>
     \/ /\ ~fd /\ faults < MaxFaults /\ faults' = faults + 1
        /\ Refuse("connect", "lost")
        /\ UNCHANGED <<client, call, link, server>>
     \/ /\ ~fd /\ fd' = TRUE /\ next_seq' = 0
        /\ link' = "up" /\ session' = "login" /\ job' = Do("greeting") /\ seq' = 0
        /\ call' = Waiting("connect", "greeting") /\ outcome' = Nothing
        /\ UNCHANGED <<binlog_read_state, faults>>
  /\ UNCHANGED <<up, down, calls, history>>

\* write_command: the first command of a request has sequence number 0, and is
\* read by the server unless the connection is lost; the write may then throw.
Put(r, n, script) ==
  up' = IF link = "up" THEN Append(up, [op |-> r, seq |-> n, script |-> script]) ELSE up

write_command(r, n, waiting) ==
  /\ next_seq' = (n + 1) % SEQ
  /\ \/ /\ Put(r, n, waiting.script)
        /\ call' = waiting /\ outcome' = Nothing
     \/ /\ link # "up"
        /\ Refuse(waiting.op, "lost") /\ call' = Idle
        /\ UNCHANGED up

\* The other methods begin with assert_conn_open and reset_seq.
Command(op, r, waiting) ==
  /\ May
  /\ IF fd THEN write_command(r, 0, waiting)
     ELSE Refuse(op, "not open") /\ UNCHANGED <<next_seq, call, up>>
  /\ UNCHANGED <<fd, binlog_read_state, link, server, down, connects, faults, history>>

\* While a binlog stream comes in, only get_binlog_event and quit are called.
NoStream == unread # "stream"

change_db == NoStream /\ Command("change_db", "init_db", Waiting("change_db", "ok"))

Query(op, script) == Command(op, "query", [Waiting(op, "result") EXCEPT !.script = script])

query_multi == NoStream /\ \E script \in Scripts : Query("query_multi", script)

query == NoStream /\ \E script \in Scripts : Query("query", script)

SetChecksum == <<[kind |-> "ok", rows |-> 0]>>
read_binlogs == NoStream /\ Query("read_binlogs", SetChecksum)

get_binlog_event ==
  /\ call = Idle
  /\ IF ~fd \/ binlog_read_state = "NOT_READING"
     THEN Refuse("get_binlog_event", IF fd THEN "not reading" ELSE "not open") /\ UNCHANGED call
     ELSE call' = Waiting("get_binlog_event", "event") /\ outcome' = Nothing
  /\ UNCHANGED <<client, link, server, up, down, calls, connects, faults, history>>

\* quit() writes and closes; binlog_read_state stays.
quit ==
  /\ call = Idle
  /\ IF ~fd THEN Refuse("quit", "not open") /\ UNCHANGED <<client, link, session, job, up, down, history>>
     ELSE /\ next_seq' = 1 % SEQ
          /\ \/ /\ fd' = FALSE /\ link' = "none" /\ session' = "none" /\ job' = Rest
                /\ up' = <<>> /\ down' = <<>> /\ unread' = "nothing" /\ got' = <<>>
                /\ Refuse("quit", "returned")
             \/ /\ link # "up" /\ Refuse("quit", "lost") /\ unread' = "answer"
                /\ UNCHANGED <<fd, link, session, job, up, down, got>>
          /\ UNCHANGED binlog_read_state
  /\ UNCHANGED <<call, seq, calls, connects, faults>>

-----------------------------------------------------------------------------
(* What the methods do with command p, by what they wait for *)

Same == UNCHANGED <<binlog_read_state, up, got, unread>>

\* An ERR is thrown, with the server's text.
parse_error_body == End("refused")

Unread(what) == unread' = IF unread = "answer" THEN unread ELSE what

\* Mutation of Counted: the sequence number is not counted.
Counted_Stay == next_seq' = next_seq

Counted == next_seq' = (next_seq + 1) % SEQ

initial_handshake(p) ==
  /\ IF p.first # "greeting" \/ p.n # 10
     THEN End("unexpected") /\ Counted /\ UNCHANGED up
     ELSE write_command("login", (next_seq + 1) % SEQ, Waiting("connect", "auth"))
  /\ UNCHANGED <<binlog_read_state, got, unread>>

\* Mutation of auth_response: "fast authentication succeeded" ends the login.
auth_response_Fast(p) ==
  /\ End(IF p.first \in {"OK", "AUTH"} THEN "returned" ELSE "refused")
  /\ Counted /\ Same

\* Mutation of auth_response: every request for more is waited through.
auth_response_Wait(p) ==
  /\ IF p.first = "AUTH" THEN UNCHANGED <<call, outcome>>
     ELSE End(IF p.first = "OK" THEN "returned" ELSE "refused")
  /\ Counted /\ Same

auth_response(p) ==
  /\ IF p.first = "AUTH" /\ p.n = 3 THEN UNCHANGED <<call, outcome>>
     ELSE End(IF p.first = "OK" THEN "returned" ELSE IF p.first = "ERR" THEN "refused" ELSE "unexpected")
  /\ Counted /\ Same

expect_ok(p) ==
  /\ IF p.first = "ERR" THEN parse_error_body ELSE End(IF p.first = "OK" THEN "returned" ELSE "unexpected")
  /\ Counted /\ Same

\* The method goes on with c.
Go(c) == call' = c /\ UNCHANGED outcome /\ Counted /\ Same

\* query_multi has its result sets: query wants one, and read_binlogs goes on
\* with BINLOG_DUMP.
QueryDone(ret) ==
  IF call.op = "read_binlogs"
  THEN \/ /\ Put("dump", 0, <<>>) /\ next_seq' = 1 % SEQ
          /\ binlog_read_state' = "READING_FIRST_EVENT" /\ got' = <<>> /\ Unread("stream")
          /\ End("returned")
       \/ /\ link # "up" /\ next_seq' = 1 % SEQ
          /\ End("lost") /\ Same
  ELSE /\ LET how == IF call.op = "query" /\ Len(ret) # 1 THEN "multiple" ELSE "returned"
          IN  outcome' = Outcome(call.op, how, ret, call.script)
       /\ call' = Idle
       /\ Counted /\ Same

\* Mutation of ResultDone: MORE_RESULTS_EXIST is not looked at.
ResultDone_First(st, more, left) == QueryDone(Append(call.ret, st))

\* A result set is complete; if there are more the loop goes on, and what the
\* fields did not use is left in the buffer.
ResultDone(st, more, left) ==
  IF ~more THEN QueryDone(Append(call.ret, st))
  ELSE Go([call EXCEPT !.wait = "result", !.ret = Append(@, st), !.left = left])

query_result(p) ==
  \/ p.first = "OK" /\ ResultDone([kind |-> "ok", rows |-> 0], p.more, p.extra)
  \/ p.first = "columns" /\ Go([call EXCEPT !.wait = "column", !.columns = p.n, !.rows = 0])
  \/ /\ p.first \notin {"OK", "columns"}
     /\ IF p.first = "ERR" THEN parse_error_body ELSE End("unexpected")
     /\ Counted /\ Same

query_column(p) ==
  \/ p.first = "column" /\ Go([call EXCEPT !.columns = @ - 1, !.wait = IF call.columns = 1 THEN "row" ELSE @])
  \/ p.first # "column" /\ End("unexpected") /\ Counted /\ Same

\* The rest of an EOF is drained; an ERR is no row (remove_varint throws).
query_row(p) ==
  \/ p.first = "EOF" /\ ResultDone([kind |-> "rows", rows |-> call.rows], p.more, FALSE)
  \/ p.first = "row" /\ Go([call EXCEPT !.rows = @ + 1])
  \/ p.first \notin {"EOF", "row"} /\ End("unexpected") /\ Counted /\ Same

\* Mutation of Checksummed: the first event has one as well.
Checksummed_Always == TRUE

Checksummed == binlog_read_state # "READING_FIRST_EVENT"

\* get_binlog_event: the checksum is taken off every event but the first.
binlog_event(p) ==
  /\ Unread(IF p.first = "OK" THEN "stream" ELSE "nothing")
  /\ \/ p.first = "EOF" /\ End("end") /\ binlog_read_state' = "NOT_READING" /\ UNCHANGED got
     \/ /\ p.first = "OK" /\ End("returned") /\ binlog_read_state' = "READING_EVENT"
        /\ got' = Append(got, [n |-> p.n, had |-> p.extra, stripped |-> Checksummed])
     \/ p.first \notin {"EOF", "OK"} /\ End("refused") /\ UNCHANGED <<binlog_read_state, got>>
  /\ Counted /\ UNCHANGED up

Handle(p) ==
  \/ call.wait = "greeting" /\ initial_handshake(p)
  \/ call.wait = "auth" /\ auth_response(p)
  \/ call.wait = "ok" /\ expect_ok(p)
  \/ call.wait = "result" /\ query_result(p)
  \/ call.wait = "column" /\ query_column(p)
  \/ call.wait = "row" /\ query_row(p)
  \/ call.wait = "event" /\ binlog_event(p)

Untouched == UNCHANGED <<next_seq, binlog_read_state, up, got>>

\* Client::read_command: it throws if the buffer is not empty, before it reads;
\* at the end of the stream; or if the sequence number is not the next one.
read_command ==
  /\ call # Idle
  /\ \/ call.left /\ End("not empty") /\ unread' = "answer" /\ Untouched /\ UNCHANGED down
     \/ /\ ~call.left /\ down # <<>>
        /\ down' = Tail(down)
        /\ IF Head(down).seq # next_seq THEN End("sequence") /\ Untouched /\ UNCHANGED unread
           ELSE Handle(Head(down).p)
     \/ /\ ~call.left /\ down = <<>> /\ link = "lost"
        /\ End("lost") /\ Untouched /\ UNCHANGED <<down, unread>>
  /\ UNCHANGED <<fd, link, server, calls, connects, faults>>

Init ==
  /\ fd = FALSE /\ next_seq = 0 /\ binlog_read_state = "NOT_READING"
  /\ call = Idle /\ outcome = Nothing
  /\ link = "none" /\ session = "none" /\ job = Rest /\ seq = 0
  /\ up = <<>> /\ down = <<>>
  /\ calls = 0 /\ connects = 0 /\ faults = 0
  /\ got = <<>> /\ unread = "nothing"

Next ==
  \/ connect \/ quit \/ change_db \/ query \/ query_multi \/ read_binlogs \/ get_binlog_event
  \/ read_command
  \/ Serve \/ SendAnswer \/ SendEvent \/ Lose

\* The event loop resumes a method whose command is there, and the server
\* answers; nothing makes it send events.
Spec == Init /\ [][Next]_vars /\ WF_vars(read_command) /\ WF_vars(Serve) /\ WF_vars(SendAnswer)

-----------------------------------------------------------------------------
(* Properties *)

\* Of a query that returns, every result set has arrived, with all its rows, in
\* the order of the statements, however many commands it took (query_multi,
\* the counting of sequence numbers in one byte).
ResultsComplete ==
  outcome.op \in {"query", "query_multi"} /\ outcome.how = "returned" /\ unread # "answer" =>
    outcome.ret = [i \in DOMAIN outcome.script |->
                     IF outcome.script[i].kind = "rows" THEN outcome.script[i] ELSE [kind |-> "ok", rows |-> 0]]

\* A method that has returned or thrown leaves nothing of its answer for the
\* next one, also after an error in the middle of the rows, except the query
\* that meets a non-empty buffer (read_command, query_multi, expect_ok).
StreamInSync ==
  call = Idle /\ link = "up" /\ unread = "nothing" => up = <<>> /\ down = <<>>

\* No answer is ever out of sequence, across wrap-around, logins, several
\* result sets and binlog streams (read_command, write_command, reset_seq).
InSequence == outcome.how = "sequence" => unread = "answer"

\* get_binlog_event returns the events of the stream, each once and in order,
\* and takes the checksum off those that have one and off no other.
EventsFaithful ==
  unread # "answer" => \A i \in DOMAIN got : got[i].n = i /\ got[i].stripped = got[i].had

\* Every method but get_binlog_event ends, if the server answers or the
\* connection fails.
MethodsEnd == call.wait \notin {"none", "event"} /\ unread # "answer" ~> call = Idle
=============================================================================
