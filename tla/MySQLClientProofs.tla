------------------------- MODULE MySQLClientProofs --------------------------
(***************************************************************************)
(* For any number of statements, columns, rows and events, and any size of *)
(* the sequence numbers: the client and its server stay in step, results   *)
(* are complete, and the events of a binlog stream are faithful.           *)
(***************************************************************************)
EXTENDS MySQLClient, TLAPS

-----------------------------------------------------------------------------
(* The types *)

Results == [kind : {"ok", "info", "err", "rows", "killed"}, rows : Nat]
Jobs == [at : {"rest", "greeting", "auth", "fast", "refuse", "ok", "result", "column", "row", "event"},
         i : Nat, rows : Nat, script : Seq(Results)]
Packets == [first : {"greeting", "AUTH", "OK", "ERR", "EOF", "columns", "column", "row"},
            more : BOOLEAN, extra : BOOLEAN, n : Nat]
Messages == [p : Packets, seq : Nat, job : Jobs]
Requests == {r \in [op : {"login", "query", "init_db", "dump"}, seq : Nat, script : Seq(Results)] :
               r.op = "query" => r.script # <<>>}
Calls == [wait : {"none", "greeting", "auth", "ok", "result", "column", "row", "event"},
          op : {"none", "connect", "change_db", "query_multi", "query", "read_binlogs", "get_binlog_event"},
          left : BOOLEAN, columns : Int, rows : Nat, ret : Seq(Results), script : Seq(Results)]

Types ==
  /\ fd \in BOOLEAN /\ next_seq \in Nat
  /\ call \in Calls /\ (call.wait = "none" => call = Idle)
  /\ link \in {"none", "up", "lost"} /\ session \in {"none", "login", "ready"}
  /\ job \in Jobs /\ seq \in Nat
  /\ up \in Seq(Requests) /\ down \in Seq(Messages)
  /\ got \in Seq([n : Nat, had : BOOLEAN, stripped : BOOLEAN])
  /\ unread \in {"nothing", "answer", "stream"}

-----------------------------------------------------------------------------
(* The server and the connection *)

InResult == {"result", "column", "row"}

\* A job is at a statement of its script, and not beyond its columns and rows.
Possible(j) ==
  j.at \in InResult =>
    /\ j.i \in 1..Len(j.script)
    /\ j.at # "result" => Statement(j).kind \in {"rows", "killed"}
    /\ j.at = "column" => j.rows < Columns
    /\ j.at = "row" => j.rows <= Statement(j).rows

\* A closed client has no connection, and only an open connection has a server
\* with something to do, which is possible.
Linked ==
  /\ ~fd => link = "none" /\ unread = "nothing" /\ call = Idle
  /\ link = "none" => ~fd
  /\ link # "up" => job = Rest
  /\ Possible(job)

\* What the server sends for a job.
Fits(p, j) ==
  /\ j.at # "rest"
  /\ j.at = "greeting" => p.first = "greeting"
  /\ j.at = "auth" => p.first \in {"OK", "ERR"} \/ (p.first = "AUTH" /\ p.n \in {3, 4})
  /\ j.at = "fast" => p.first = "OK"
  /\ j.at = "refuse" => p.first = "ERR"
  /\ j.at = "ok" => p.first \in {"OK", "ERR"}
  /\ j.at \in InResult => p = ResultPacket(j)
  /\ j.at = "event" => p.first \in {"EOF", "ERR"} \/ p = Packet("OK", FALSE, j.rows > 0, j.rows + 1)

\* What it does after the message m.
Follow(m) ==
  IF m.job.at \in InResult THEN AfterResult(m.job)
  ELSE IF m.job.at = "auth" /\ m.p.first = "AUTH" /\ m.p.n = 3 THEN Do("fast")
  ELSE IF m.job.at = "event" /\ m.p.first = "OK" THEN [m.job EXCEPT !.rows = @ + 1]
  ELSE Rest

\* The messages on their way are the server's, one after the other; the server
\* goes on after the last of them.
Chained ==
  /\ \A k \in 1..Len(down) : Possible(down[k].job) /\ Fits(down[k].p, down[k].job)
  /\ \A k \in 1..Len(down) : k < Len(down) =>
       down[k + 1].job = Follow(down[k]) /\ down[k + 1].seq = (down[k].seq + 1) % SEQ
  /\ down # <<>> /\ link = "up" => job = Follow(down[Len(down)]) /\ seq = (down[Len(down)].seq + 1) % SEQ

\* Who is logged in.
Session ==
  link = "up" =>
    /\ session # "none"
    /\ job.at \in {"greeting", "auth", "fast", "refuse"} => session = "login"
    /\ job.at \in InResult \cup {"ok", "event"} => session = "ready"
    /\ \A k \in 1..Len(down) : /\ down[k].job.at = "greeting" => session = "login"
                               /\ down[k].job.at \in InResult => session = "ready"

-----------------------------------------------------------------------------
(* The client *)

\* What a statement gives, as the client reports it.
Given(st) == IF st.kind = "rows" THEN st ELSE [kind |-> "ok", rows |-> 0]

\* The result sets that query_multi has so far are those of the first
\* statements.
Collected ==
  /\ call.op \in {"query", "query_multi", "read_binlogs"} <=> call.wait \in InResult
  /\ call.wait \in InResult =>
       /\ Len(call.ret) < Len(call.script)
       /\ \A k \in 1..Len(call.ret) : call.ret[k] = Given(call.script[k])

\* The client waits for what is sent for job j.
Wants(j) ==
  /\ call.wait = "greeting" => j.at = "greeting"
  /\ call.wait = "auth" => j.at \in {"auth", "fast"}
  /\ call.wait = "ok" => j.at \in {"ok", "refuse"}
  /\ call.wait = "result" => j.at \in {"result", "refuse"}
  /\ call.wait = "column" => j.at = "column" /\ call.columns = Columns - j.rows /\ call.rows = 0
  /\ call.wait = "row" => j.at = "row" /\ call.rows = j.rows
  /\ call.wait \in InResult /\ j.at # "refuse" => j.i = Len(call.ret) + 1 /\ j.script = call.script
  /\ unread = "stream" => j.at = "event" /\ j.rows = Len(got)

\* Something is to come: the answer to the method in progress, or a stream.
Awaiting == unread = "stream" \/ call.wait \notin {"none", "event"}

\* The request that the server has not read yet.
Asked(r) ==
  /\ next_seq = (r.seq + 1) % SEQ
  /\ \/ r.op = "login" /\ call.wait = "auth" /\ session = "login"
     \/ r.op = "query" /\ call.wait = "result" /\ call.ret = <<>> /\ r.script = call.script
     \/ r.op = "init_db" /\ call.wait = "ok"
     \/ r.op = "dump" /\ unread = "stream" /\ got = <<>> /\ session = "ready"

\* The client and the server are in step: what comes first is what the client
\* waits for, with the number that it expects.
InStep ==
  /\ ~Awaiting => down = <<>> /\ up = <<>> /\ job = Rest
  /\ Awaiting /\ down # <<>> => up = <<>> /\ Wants(down[1].job) /\ down[1].seq = next_seq
  /\ Awaiting /\ down = <<>> /\ up = <<>> /\ link = "up" => Wants(job) /\ seq = next_seq
  /\ up # <<>> => link = "up" /\ Len(up) = 1 /\ job = Rest /\ down = <<>> /\ Asked(up[1])

\* The events so far, and whether the next one has a checksum.
Events ==
  /\ \A k \in 1..Len(got) : got[k].n = k /\ got[k].stripped = got[k].had
  /\ unread = "stream" => /\ call.wait \in {"none", "event"}
                          /\ (binlog_read_state = "READING_FIRST_EVENT" <=> got = <<>>)

\* The inductive invariant: unless a method met a non-empty buffer, both sides
\* are in step.
Good == Chained /\ Session /\ Collected /\ InStep /\ Events /\ ResultsComplete /\ outcome.how # "sequence"
QInv == Types /\ Linked /\ (unread # "answer" => Good)

-----------------------------------------------------------------------------
(* Sequences *)

\* What is left of a sequence without its first element.
LEMMA TailFacts ==
  ASSUME NEW S, NEW s \in Seq(S), s # <<>>
  PROVE  /\ Tail(s) \in Seq(S) /\ Len(Tail(s)) = Len(s) - 1 /\ Len(s) \in Nat \ {0}
         /\ Head(s) = s[1] /\ s[1] \in S
         /\ \A k \in 1..Len(Tail(s)) : Tail(s)[k] = s[k + 1]
         /\ Tail(s) # <<>> => Len(s) > 1 /\ Tail(s)[1] = s[2] /\ Tail(s)[Len(Tail(s))] = s[Len(s)]
  OBVIOUS

\* A sequence with one more element.
LEMMA AppendFacts ==
  ASSUME NEW S, NEW s \in Seq(S), NEW x \in S
  PROVE  /\ Append(s, x) \in Seq(S) /\ Append(s, x) # <<>>
         /\ Len(Append(s, x)) = Len(s) + 1 /\ Len(s) \in Nat
         /\ Append(s, x)[Len(s) + 1] = x
         /\ \A k \in 1..Len(s) : Append(s, x)[k] = s[k]
         /\ s # <<>> => Append(s, x)[1] = s[1] /\ Len(s) >= 1
         /\ s = <<>> => Len(Append(s, x)) = 1 /\ Append(s, x)[1] = x
  OBVIOUS

\* The first elements of a sequence.
LEMMA PrefixFacts ==
  ASSUME NEW S, NEW s \in Seq(S), NEW n \in 0..Len(s)
  PROVE  /\ SubSeq(s, 1, n) \in Seq(S) /\ Len(SubSeq(s, 1, n)) = n /\ Len(s) \in Nat
         /\ \A k \in 1..n : SubSeq(s, 1, n)[k] = s[k]
         /\ SubSeq(s, 1, n) # <<>> => s # <<>> /\ n >= 1 /\ SubSeq(s, 1, n)[1] = s[1]
  OBVIOUS

\* A sequence is empty if it has no elements.
LEMMA EmptyFact == ASSUME NEW S, NEW s \in Seq(S) PROVE /\ s = <<>> <=> Len(s) = 0
                                                       /\ Len(s) \in Nat
                                                       /\ \A k \in 1..Len(s) : s[k] \in S
  OBVIOUS

-----------------------------------------------------------------------------
(* Jobs and what is sent for them *)

\* A job without a script.
LEMMA DoFacts ==
  ASSUME NEW at \in {"rest", "greeting", "auth", "fast", "refuse", "ok", "event"}
  PROVE  Do(at) \in Jobs /\ Do(at).at = at /\ Do(at).rows = 0 /\ Possible(Do(at))
<1>1. <<>> \in Seq(Results)
  OBVIOUS
<1> QED BY <1>1, Zenon DEF Do, Job, Jobs, Possible, InResult

LEMMA RestFacts == Rest \in Jobs /\ Rest.at = "rest" /\ Possible(Rest)
  BY DoFacts, Zenon DEF Rest

\* The fields of a command.
LEMMA PacketFacts ==
  ASSUME NEW first \in {"greeting", "AUTH", "OK", "ERR", "EOF", "columns", "column", "row"},
         NEW more \in BOOLEAN, NEW extra \in BOOLEAN, NEW n \in Nat
  PROVE  /\ Packet(first, more, extra, n) \in Packets /\ Packet(first, more, extra, n).first = first
         /\ Packet(first, more, extra, n).more = more /\ Packet(first, more, extra, n).extra = extra
         /\ Packet(first, more, extra, n).n = n
  BY Zenon DEF Packet, Packets

\* The fields of a job.
LEMMA JobFacts ==
  ASSUME NEW at \in InResult, NEW i \in Nat, NEW rows \in Nat, NEW script \in Seq(Results)
  PROVE  /\ Job(at, i, rows, script) \in Jobs
         /\ Job(at, i, rows, script).at = at /\ Job(at, i, rows, script).i = i
         /\ Job(at, i, rows, script).rows = rows /\ Job(at, i, rows, script).script = script
  BY Zenon DEF Job, Jobs, InResult

\* What the server sends for a statement, and what it does then.
LEMMA ResultFacts ==
  ASSUME NEW j \in Jobs, j.at \in InResult, Possible(j)
  PROVE  /\ ResultPacket(j) \in Packets /\ ResultPacket(j).first \notin {"greeting", "AUTH"}
         /\ AfterResult(j) \in Jobs /\ Possible(AfterResult(j))
         /\ AfterResult(j) = Rest \/ AfterResult(j).at \in InResult
<1> DEFINE st == Statement(j)
<1>1. /\ j.i \in Nat /\ j.rows \in Nat /\ j.script \in Seq(Results) /\ j.i \in 1..Len(j.script)
      /\ j.at \in {"result", "column", "row"}
  BY Zenon DEF Jobs, Possible, InResult
<1>2. st \in Results /\ st.kind \in {"ok", "info", "err", "rows", "killed"} /\ st.rows \in Nat
  <2>1. st \in Results
    BY <1>1 DEF Statement
  <2> QED BY <2>1, Zenon DEF Results
<1>3. More(j) \in BOOLEAN /\ (More(j) => j.i + 1 \in 1..Len(j.script))
  <2>1. More(j) \in BOOLEAN
    BY Zenon DEF More
  <2>2. More(j) => j.i < Len(j.script)
    BY Zenon DEF More
  <2>3. Len(j.script) \in Nat
    BY <1>1
  <2> QED BY <1>1, <2>1, <2>2, <2>3
<1>4. Columns \in Nat /\ (st.kind = "info") \in BOOLEAN
  BY ColumnsAssumption, Zenon
<1>5. ResultPacket(j) \in Packets /\ ResultPacket(j).first \notin {"greeting", "AUTH"}
  <2> HIDE DEF st
  <2>1. \/ \E f \in {"column", "row", "ERR"} : ResultPacket(j) = Packet(f, FALSE, FALSE, 0)
        \/ ResultPacket(j) = Packet("EOF", More(j), TRUE, 0)
        \/ ResultPacket(j) = Packet("columns", FALSE, FALSE, Columns)
        \/ ResultPacket(j) = Packet("OK", More(j), st.kind = "info", 0)
    BY Zenon DEF ResultPacket, Simple, st
  <2>2. ASSUME NEW f \in {"column", "row", "ERR"}, ResultPacket(j) = Packet(f, FALSE, FALSE, 0)
        PROVE  ResultPacket(j) \in Packets /\ ResultPacket(j).first \notin {"greeting", "AUTH"}
    BY <2>2 DEF Packet, Packets
  <2>3. CASE ResultPacket(j) = Packet("EOF", More(j), TRUE, 0)
    BY <1>3, <2>3 DEF Packet, Packets
  <2>4. CASE ResultPacket(j) = Packet("columns", FALSE, FALSE, Columns)
    BY <1>4, <2>4 DEF Packet, Packets
  <2>5. CASE ResultPacket(j) = Packet("OK", More(j), st.kind = "info", 0)
    <3> DEFINE more == More(j)
               extra == st.kind = "info"
    <3>1. more \in BOOLEAN /\ extra \in BOOLEAN
      BY <1>3, <1>4, Zenon
    <3> HIDE DEF more, extra
    <3>2. Packet("OK", more, extra, 0) \in Packets /\ Packet("OK", more, extra, 0).first = "OK"
      BY <3>1, PacketFacts
    <3> QED BY <2>5, <3>2, Zenon DEF more, extra
  <2> QED BY <2>1, <2>2, <2>3, <2>4, <2>5, Zenon
<1>6. /\ AfterResult(j) \in Jobs /\ Possible(AfterResult(j))
      /\ AfterResult(j) = Rest \/ AfterResult(j).at \in InResult
  <2>1. CASE j.at = "result" /\ st.kind \in {"rows", "killed"}
    <3>1. AfterResult(j) = Job("column", j.i, 0, j.script)
      BY <2>1, Zenon DEF AfterResult
    <3>2. /\ AfterResult(j) \in Jobs /\ AfterResult(j).at = "column" /\ AfterResult(j).i = j.i
          /\ AfterResult(j).rows = 0 /\ AfterResult(j).script = j.script
      BY <1>1, <3>1, JobFacts DEF InResult
    <3>3. Statement(AfterResult(j)) = st
      BY <3>2, Zenon DEF Statement
    <3>4. st.kind \in {"rows", "killed"}
      BY <2>1, Zenon DEF Possible, InResult
    <3> HIDE DEF st
    <3> QED BY <1>1, <1>2, <1>4, <2>1, <3>2, <3>3, <3>4, ColumnsAssumption DEF Possible, InResult
  <2>2. CASE j.at = "column" /\ j.rows + 1 < Columns
    <3>1. AfterResult(j) = Job("column", j.i, j.rows + 1, j.script)
      BY <2>2, Zenon DEF AfterResult
    <3>2. /\ AfterResult(j) \in Jobs /\ AfterResult(j).at = "column" /\ AfterResult(j).i = j.i
          /\ AfterResult(j).rows = j.rows + 1 /\ AfterResult(j).script = j.script
      BY <1>1, <3>1, JobFacts DEF InResult
    <3>3. Statement(AfterResult(j)) = st
      BY <3>2, Zenon DEF Statement
    <3>4. st.kind \in {"rows", "killed"}
      BY <2>2, Zenon DEF Possible, InResult
    <3> HIDE DEF st
    <3> QED BY <1>1, <1>2, <1>4, <2>2, <3>2, <3>3, <3>4, ColumnsAssumption, Zenon DEF Possible, InResult
  <2>3. CASE j.at = "column" /\ ~(j.rows + 1 < Columns)
    <3>1. AfterResult(j) = Job("row", j.i, 0, j.script)
      BY <2>3, Zenon DEF AfterResult
    <3>2. /\ AfterResult(j) \in Jobs /\ AfterResult(j).at = "row" /\ AfterResult(j).i = j.i
          /\ AfterResult(j).rows = 0 /\ AfterResult(j).script = j.script
      BY <1>1, <3>1, JobFacts DEF InResult
    <3>3. Statement(AfterResult(j)) = st
      BY <3>2, Zenon DEF Statement
    <3>4. st.kind \in {"rows", "killed"}
      BY <2>3, Zenon DEF Possible, InResult
    <3> HIDE DEF st
    <3> QED BY <1>1, <1>2, <1>4, <2>3, <3>2, <3>3, <3>4, ColumnsAssumption DEF Possible, InResult
  <2>4. CASE j.at = "row" /\ j.rows < st.rows
    <3>1. AfterResult(j) = Job("row", j.i, j.rows + 1, j.script)
      BY <2>4, Zenon DEF AfterResult
    <3>2. /\ AfterResult(j) \in Jobs /\ AfterResult(j).at = "row" /\ AfterResult(j).i = j.i
          /\ AfterResult(j).rows = j.rows + 1 /\ AfterResult(j).script = j.script
      BY <1>1, <3>1, JobFacts DEF InResult
    <3>3. Statement(AfterResult(j)) = st
      BY <3>2, Zenon DEF Statement
    <3>4. st.kind \in {"rows", "killed"}
      BY <2>4, Zenon DEF Possible, InResult
    <3> HIDE DEF st
    <3> QED BY <1>1, <1>2, <1>4, <2>4, <3>2, <3>3, <3>4, ColumnsAssumption DEF Possible, InResult
  <2>5. CASE \/ j.at = "result" /\ st.kind \notin {"rows", "killed"}
             \/ j.at = "row" /\ ~(j.rows < st.rows)
    <3>1. AfterResult(j) = IF More(j) THEN Job("result", j.i + 1, 0, j.script) ELSE Rest
      BY <2>5, Zenon DEF AfterResult
    <3>2. CASE More(j)
      <4>1. AfterResult(j) = Job("result", j.i + 1, 0, j.script)
        BY <3>1, <3>2, Zenon
      <4>2. /\ AfterResult(j) \in Jobs /\ AfterResult(j).at = "result" /\ AfterResult(j).i = j.i + 1
            /\ AfterResult(j).script = j.script
        BY <1>1, <4>1, JobFacts DEF InResult
      <4> QED BY <1>1, <1>3, <3>2, <4>2, Zenon DEF Possible, InResult
    <3>3. CASE ~More(j)
      BY <3>1, <3>3, RestFacts, Zenon
    <3> QED BY <3>2, <3>3, Zenon
  <2> QED BY <1>1, <2>1, <2>2, <2>3, <2>4, <2>5, Zenon
<1> QED BY <1>5, <1>6, Zenon

-----------------------------------------------------------------------------
(* The messages on their way *)

\* The next sequence number is one.
LEMMA CountFact == ASSUME NEW n \in Nat PROVE (n + 1) % SEQ \in Nat
  BY SEQAssumption

\* A message joins those on their way, after the last one.
LEMMA SendChained ==
  ASSUME Types, Chained, link = "up", NEW p \in Packets, NEW j \in Jobs, Possible(job), Fits(p, job), Send(p, j),
         j = Follow([p |-> p, seq |-> seq, job |-> job])
  PROVE  /\ Chained' /\ down' \in Seq(Messages) /\ down' # <<>> /\ seq' \in Nat
         /\ down # <<>> => down'[1] = down[1]
         /\ down = <<>> => down'[1].job = job /\ down'[1].seq = seq
         /\ \A k \in 1..Len(down') : down'[k].job = job \/ (k \in 1..Len(down) /\ down'[k] = down[k])
<1> DEFINE m == [p |-> p, seq |-> seq, job |-> job]
<1>1. m \in Messages /\ m.p = p /\ m.seq = seq /\ m.job = job
  BY Zenon DEF Types, Messages
<1>2. down' = Append(down, m) /\ job' = j /\ seq' = (seq + 1) % SEQ /\ down \in Seq(Messages) /\ seq \in Nat
  BY Zenon DEF Send, Types
<1>3. j = Follow(m)
  BY Zenon
<1> HIDE DEF m
<1>4. /\ down' \in Seq(Messages) /\ down' # <<>> /\ Len(down') = Len(down) + 1 /\ Len(down) \in Nat
      /\ down'[Len(down')] = m /\ \A k \in 1..Len(down) : down'[k] = down[k]
      /\ down # <<>> => down'[1] = down[1] /\ Len(down) >= 1
      /\ down = <<>> => down'[1] = m
  BY <1>1, <1>2, AppendFacts
<1>5. \A k \in 1..Len(down') : k = Len(down') \/ k \in 1..Len(down)
  BY <1>4
<1>6. \A k \in 1..Len(down') : Possible(down'[k].job) /\ Fits(down'[k].p, down'[k].job)
  BY <1>1, <1>4, <1>5, Zenon DEF Chained
<1>7. ASSUME NEW k \in 1..Len(down'), k < Len(down')
      PROVE  down'[k + 1].job = Follow(down'[k]) /\ down'[k + 1].seq = (down'[k].seq + 1) % SEQ
  <2>1. k \in 1..Len(down) /\ down'[k] = down[k]
    BY <1>4, <1>7
  <2>2. CASE k < Len(down)
    <3>1. k + 1 \in 1..Len(down) /\ down'[k + 1] = down[k + 1]
      BY <1>4, <2>2
    <3> QED BY <2>1, <2>2, <3>1, Zenon DEF Chained
  <2>3. CASE k = Len(down)
    <3>1. k + 1 = Len(down') /\ down # <<>>
      BY <1>4, <2>1, <2>3, EmptyFact, <1>2
    <3>2. job = Follow(down[k]) /\ seq = (down[k].seq + 1) % SEQ
      BY <2>3, <3>1, Zenon DEF Chained
    <3> QED BY <1>1, <1>4, <2>1, <3>1, <3>2, Zenon
  <2> QED BY <1>4, <2>1, <2>2, <2>3
<1>8. job' = Follow(down'[Len(down')]) /\ seq' = (down'[Len(down')].seq + 1) % SEQ
  BY <1>1, <1>2, <1>3, <1>4, Zenon
<1>9. Chained'
  BY <1>6, <1>7, <1>8, Zenon DEF Chained
<1>10. seq' \in Nat
  BY <1>2, CountFact, Zenon
<1> QED BY <1>1, <1>4, <1>5, <1>9, <1>10, Zenon

\* Some of the messages are lost with the connection.
LEMMA CutChained ==
  ASSUME Types, Chained, NEW n \in 0..Len(down), down' = SubSeq(down, 1, n), job' = Rest, link' # "up"
  PROVE  /\ Chained' /\ down' \in Seq(Messages)
         /\ down' # <<>> => down # <<>> /\ down'[1] = down[1]
<1>1. down \in Seq(Messages)
  BY Zenon DEF Types
<1>2. /\ down' \in Seq(Messages) /\ Len(down') = n /\ n <= Len(down) /\ Len(down) \in Nat
      /\ \A k \in 1..n : down'[k] = down[k]
      /\ down' # <<>> => down # <<>> /\ down'[1] = down[1]
  BY <1>1, PrefixFacts
<1>3. \A k \in 1..Len(down') : Possible(down'[k].job) /\ Fits(down'[k].p, down'[k].job)
  BY <1>2 DEF Chained
<1>4. \A k \in 1..Len(down') : k < Len(down') => down'[k + 1].job = Follow(down'[k]) /\ down'[k + 1].seq = (down'[k].seq + 1) % SEQ
  <2> SUFFICES ASSUME NEW k \in 1..n, k < n
               PROVE  down'[k + 1].job = Follow(down'[k]) /\ down'[k + 1].seq = (down'[k].seq + 1) % SEQ
    BY <1>2, Zenon
  <2>1. k \in 1..Len(down) /\ k < Len(down) /\ k + 1 \in 1..n
    BY <1>2
  <2>2. down[k + 1].job = Follow(down[k]) /\ down[k + 1].seq = (down[k].seq + 1) % SEQ
    BY <2>1, Zenon DEF Chained
  <2> QED BY <1>2, <2>1, <2>2, Zenon
<1> QED BY <1>2, <1>3, <1>4, Zenon DEF Chained

\* The first message is read: what follows it is next.
LEMMA ReadChained ==
  ASSUME Types, Chained, down # <<>>, down' = Tail(down), UNCHANGED <<job, seq, link>>
  PROVE  /\ Chained' /\ down' \in Seq(Messages)
         /\ down[1] \in Messages /\ Head(down) = down[1]
         /\ Possible(down[1].job) /\ Fits(down[1].p, down[1].job)
         /\ down' # <<>> => down'[1].job = Follow(down[1]) /\ down'[1].seq = (down[1].seq + 1) % SEQ
         /\ down' = <<>> /\ link = "up" => job = Follow(down[1]) /\ seq = (down[1].seq + 1) % SEQ
         /\ \A k \in 1..Len(down') : k + 1 \in 1..Len(down) /\ down'[k] = down[k + 1]
<1>1. down \in Seq(Messages)
  BY Zenon DEF Types
<1>2. /\ down' \in Seq(Messages) /\ Len(down') = Len(down) - 1 /\ Len(down) \in Nat \ {0}
      /\ Head(down) = down[1] /\ down[1] \in Messages
      /\ \A k \in 1..Len(down') : down'[k] = down[k + 1]
      /\ down' # <<>> => Len(down) > 1 /\ down'[1] = down[2] /\ down'[Len(down')] = down[Len(down)]
  BY <1>1, TailFacts, Zenon
<1>3. \A k \in 1..Len(down') : k + 1 \in 1..Len(down)
  BY <1>2
<1>4. Possible(down[1].job) /\ Fits(down[1].p, down[1].job)
  BY <1>2 DEF Chained
<1>5. \A k \in 1..Len(down') : Possible(down'[k].job) /\ Fits(down'[k].p, down'[k].job)
  BY <1>2, <1>3, Zenon DEF Chained
<1>6. \A k \in 1..Len(down') : k < Len(down') => down'[k + 1].job = Follow(down'[k]) /\ down'[k + 1].seq = (down'[k].seq + 1) % SEQ
  <2> SUFFICES ASSUME NEW k \in 1..Len(down'), k < Len(down')
               PROVE  down'[k + 1].job = Follow(down'[k]) /\ down'[k + 1].seq = (down'[k].seq + 1) % SEQ
    BY Zenon
  <2> DEFINE l == k + 1
  <2>1. l \in 1..Len(down) /\ l < Len(down) /\ l \in 1..Len(down')
    BY <1>2
  <2>2. down'[k] = down[l] /\ down'[l] = down[l + 1]
    BY <1>2, <2>1, Zenon
  <2> HIDE DEF l
  <2>3. down[l + 1].job = Follow(down[l]) /\ down[l + 1].seq = (down[l].seq + 1) % SEQ
    BY <2>1, Zenon DEF Chained
  <2>4. down'[l].job = Follow(down'[k]) /\ down'[l].seq = (down'[k].seq + 1) % SEQ
    BY <2>2, <2>3, Zenon
  <2> QED BY <2>4, Zenon DEF l
<1>7. down' # <<>> => down'[1].job = Follow(down[1]) /\ down'[1].seq = (down[1].seq + 1) % SEQ
  <2> SUFFICES ASSUME down' # <<>> PROVE down'[1].job = Follow(down[1]) /\ down'[1].seq = (down[1].seq + 1) % SEQ
    BY Zenon
  <2>1. 1 \in 1..Len(down) /\ 1 < Len(down) /\ 1 + 1 = 2 /\ down'[1] = down[2]
    BY <1>2
  <2>2. down[1 + 1].job = Follow(down[1]) /\ down[1 + 1].seq = (down[1].seq + 1) % SEQ
    BY <2>1, Zenon DEF Chained
  <2> QED BY <2>1, <2>2, Zenon
<1>8. link = "up" => job = Follow(down[Len(down)]) /\ seq = (down[Len(down)].seq + 1) % SEQ
  BY Zenon DEF Chained
<1>9. down' = <<>> => Len(down) = 1
  <2>1. down' = <<>> => Len(down') = 0
    BY Zenon
  <2> QED BY <1>2, <2>1
<1>10. down' # <<>> /\ link' = "up" => job' = Follow(down'[Len(down')]) /\ seq' = (down'[Len(down')].seq + 1) % SEQ
  BY <1>2, <1>8, Zenon
<1>11. Chained'
  BY <1>5, <1>6, <1>10, Zenon DEF Chained
<1> QED BY <1>2, <1>3, <1>4, <1>7, <1>8, <1>9, <1>11, Zenon

-----------------------------------------------------------------------------
(* The steps of the server *)

\* While the server is busy no message on its way is the last one of an answer.
LEMMA Unfinished ==
  ASSUME Types, Chained, link = "up", job # Rest, NEW k \in 1..Len(down)
  PROVE  Follow(down[k]) # Rest /\ down[k].job.at # "greeting"
<1>1. Len(down) \in Nat /\ (down = <<>> => Len(down) = 0)
  BY EmptyFact, Zenon DEF Types
<1>2. CASE k < Len(down)
  <2>1. k + 1 \in 1..Len(down) /\ down[k + 1].job = Follow(down[k])
    BY <1>1, <1>2 DEF Chained
  <2>2. down[k + 1].job.at # "rest"
    BY <2>1, Zenon DEF Chained, Fits
  <2> QED BY <2>1, <2>2, RestFacts, Zenon DEF Follow, InResult
<1>3. CASE k = Len(down)
  BY <1>1, <1>3 DEF Chained, Follow, InResult
<1> QED BY <1>1, <1>2, <1>3

\* The server is at work only for a client that awaits something, after it has
\* read the request.
LEMMA BusyFacts ==
  ASSUME QInv, unread # "answer", job # Rest
  PROVE  Awaiting /\ up = <<>> /\ link = "up"
  BY Zenon DEF QInv, Good, InStep, Linked

\* The server sends a command: nothing changes for the client.
LEMMA SendStep ==
  ASSUME QInv, link = "up", NEW p \in Packets, NEW j \in Jobs, Possible(j), Fits(p, job), Send(p, j),
         j = Follow([p |-> p, seq |-> seq, job |-> job]),
         link' = "up" \/ (link' = "lost" /\ j = Rest), session' \in {"none", "login", "ready"},
         unread # "answer" /\ link' = "up" =>
           /\ session' = session \/ (session' = "ready" /\ job.at # "greeting")
           /\ j.at \in {"greeting", "auth", "fast", "refuse"} => session' = "login"
           /\ j.at \in InResult \cup {"ok", "event"} => session' = "ready"
  PROVE  QInv'
<1>1. /\ job' = j /\ UNCHANGED <<fd, next_seq, binlog_read_state, call, outcome, up, got, unread>>
      /\ down' = Append(down, [p |-> p, seq |-> seq, job |-> job]) /\ seq' = (seq + 1) % SEQ
  BY Zenon DEF Send, client, history
<1>2. Types /\ Linked /\ (unread # "answer" => Good) /\ Possible(job)
  BY Zenon DEF QInv, Linked
<1>3. [p |-> p, seq |-> seq, job |-> job] \in Messages
  BY <1>2, Zenon DEF Types, Messages
<1>4. down' \in Seq(Messages) /\ seq' \in Nat
  BY <1>1, <1>2, <1>3, AppendFacts, CountFact, Zenon DEF Types
<1>5. Types'
  BY <1>1, <1>2, <1>4, Zenon DEF Types
<1>6. Linked'
  BY <1>1, <1>2, Zenon DEF Linked
<1>7. ASSUME unread # "answer" PROVE Good'
  <2>1. Chained /\ Session /\ Collected /\ InStep /\ Events /\ ResultsComplete /\ outcome.how # "sequence"
    BY <1>2, <1>7, Zenon DEF Good
  <2>2. job # Rest
    BY RestFacts, Zenon DEF Fits
  <2>3. /\ Chained' /\ down' # <<>>
        /\ down # <<>> => down'[1] = down[1]
        /\ down = <<>> => down'[1].job = job /\ down'[1].seq = seq
        /\ \A k \in 1..Len(down') : down'[k].job = job \/ (k \in 1..Len(down) /\ down'[k] = down[k])
    BY <1>2, <2>1, SendChained, Zenon
  <2>4. \A k \in 1..Len(down) : down[k].job.at # "greeting"
    BY <1>2, <2>1, <2>2, Unfinished, Zenon
  <2>5. Session'
    <3> SUFFICES ASSUME link' = "up" PROVE Session'
      BY Zenon DEF Session
    <3>1. session # "none" /\ session' # "none"
      BY <1>7, <2>1, Zenon DEF Session
    <3>2. ASSUME NEW k \in 1..Len(down'), down'[k].job.at = "greeting" PROVE session' = "login"
      BY <1>7, <2>1, <2>3, <2>4, <3>2, Zenon DEF Session
    <3>3. ASSUME NEW k \in 1..Len(down'), down'[k].job.at \in InResult PROVE session' = "ready"
      BY <1>7, <2>1, <2>3, <3>3, Zenon DEF Session
    <3> QED BY <1>1, <1>7, <3>1, <3>2, <3>3, Zenon DEF Session
  <2>6. InStep'
    <3>1. Awaiting /\ up = <<>>
      BY <1>7, <2>2, BusyFacts, Zenon
    <3>2. Wants(down'[1].job) /\ down'[1].seq = next_seq
      BY <2>1, <2>3, <3>1, Zenon DEF InStep
    <3>3. Awaiting' /\ up' = <<>> /\ Wants(down[1].job)' /\ down'[1].seq = next_seq'
      BY <1>1, <3>1, <3>2, Zenon DEF Awaiting, Wants
    <3> QED BY <2>3, <3>3, Zenon DEF InStep
  <2>7. Collected' /\ Events' /\ ResultsComplete' /\ outcome'.how # "sequence"
    BY <1>1, <2>1, ZenonT(60) DEF Collected, Events, ResultsComplete
  <2> QED BY <2>3, <2>5, <2>6, <2>7, Zenon DEF Good
<1> QED BY <1>1, <1>5, <1>6, <1>7, Zenon DEF QInv

\* The next command of an answer (see SendStep).
LEMMA SendAnswerStep == ASSUME QInv, SendAnswer PROVE QInv'
<1>1. /\ link = "up" /\ job \in Jobs /\ Possible(job) /\ session \in {"none", "login", "ready"}
      /\ unread # "answer" => Session
  BY Zenon DEF QInv, Types, Linked, SendAnswer, Good
<1>2. Rest \in Jobs /\ Possible(Rest) /\ Rest.at = "rest" /\ Do("fast") \in Jobs /\ Possible(Do("fast")) /\ Do("fast").at = "fast"
  BY RestFacts, DoFacts, Zenon
<1>3. ASSUME NEW p \in Packets, Send(p, Rest), Fits(p, job), Follow([p |-> p, seq |-> seq, job |-> job]) = Rest,
             \/ link' = "lost" /\ session' = "none"
             \/ link' = "up" /\ session' = session
             \/ link' = "up" /\ session' = "ready" /\ job.at # "greeting"
      PROVE  QInv'
  BY <1>1, <1>2, <1>3, SendStep, Zenon DEF InResult
<1>4. ASSUME NEW first \in {"greeting", "AUTH", "OK", "ERR"}, NEW n \in Nat
      PROVE  /\ Packet(first, FALSE, FALSE, n) \in Packets
             /\ Packet(first, FALSE, FALSE, n).first = first /\ Packet(first, FALSE, FALSE, n).n = n
  BY Zenon DEF Packet, Packets
<1>5. ASSUME NEW p \in Packets, job.at \in {"greeting", "auth", "fast", "refuse", "ok"}, ~(p.first = "AUTH" /\ p.n = 3)
      PROVE  Follow([p |-> p, seq |-> seq, job |-> job]) = Rest
  BY <1>5, Zenon DEF Follow, InResult
<1>6. CASE /\ job.at = "greeting" /\ UNCHANGED <<session, link>>
           /\ \E version \in {10, 9} : Send(Packet("greeting", FALSE, FALSE, version), Rest)
  <2>1. PICK version \in {10, 9} : Send(Packet("greeting", FALSE, FALSE, version), Rest)
    BY <1>6, Zenon
  <2> DEFINE p == Packet("greeting", FALSE, FALSE, version)
  <2>2. p \in Packets /\ p.first = "greeting"
    BY DEF Packet, Packets
  <2> HIDE DEF p
  <2>3. Fits(p, job)
    BY <1>6, <2>2, Zenon DEF Fits, InResult
  <2> QED BY <1>1, <1>3, <1>5, <1>6, <2>1, <2>2, <2>3, Zenon DEF p
<1>7. CASE /\ job.at \in {"auth", "fast"} /\ session' = "ready" /\ UNCHANGED link
           /\ Send(Simple("OK"), Rest)
  <2> DEFINE p == Simple("OK")
  <2>1. p \in Packets /\ p.first = "OK"
    BY <1>4, Zenon DEF Simple
  <2> HIDE DEF p
  <2>2. Fits(p, job)
    BY <1>7, <2>1, Zenon DEF Fits, InResult
  <2> QED BY <1>1, <1>3, <1>5, <1>7, <2>1, <2>2, Zenon DEF p
<1>8. CASE job.at = "auth" /\ UNCHANGED <<session, link>> /\ Send(Packet("AUTH", FALSE, FALSE, 3), Do("fast"))
  <2> DEFINE p == Packet("AUTH", FALSE, FALSE, 3)
  <2>1. p \in Packets /\ p.first = "AUTH" /\ p.n = 3
    BY <1>4, Zenon
  <2>2. Send(p, Do("fast"))
    BY <1>8, Zenon
  <2> HIDE DEF p
  <2>3. Fits(p, job)
    BY <1>8, <2>1, Zenon DEF Fits, InResult
  <2>4. Follow([p |-> p, seq |-> seq, job |-> job]) = Do("fast")
    BY <1>8, <2>1, Zenon DEF Follow, InResult
  <2>5. unread # "answer" => session' = "login"
    BY <1>1, <1>8, Zenon DEF Session
  <2> QED BY <1>1, <1>2, <1>8, <2>1, <2>2, <2>3, <2>4, <2>5, SendStep, Zenon DEF InResult
<1>9. CASE job.at = "auth" /\ UNCHANGED <<session, link>> /\ Send(Packet("AUTH", FALSE, FALSE, 4), Rest)
  <2> DEFINE p == Packet("AUTH", FALSE, FALSE, 4)
  <2>1. p \in Packets /\ p.first = "AUTH" /\ p.n = 4
    BY <1>4, Zenon
  <2>2. Send(p, Rest)
    BY <1>9, Zenon
  <2> HIDE DEF p
  <2>3. Fits(p, job)
    BY <1>9, <2>1, Zenon DEF Fits, InResult
  <2>4. Follow([p |-> p, seq |-> seq, job |-> job]) = Rest
    BY <1>5, <1>9, <2>1
  <2>5. link' = "up" /\ session' = session
    BY <1>1, <1>9, Zenon
  <2> QED BY <1>3, <2>1, <2>2, <2>3, <2>4, <2>5, Zenon
<1>10. CASE /\ job.at \in {"auth", "refuse"} /\ session' = "none" /\ link' = "lost"
            /\ Send(Simple("ERR"), Rest)
  <2> DEFINE p == Simple("ERR")
  <2>1. p \in Packets /\ p.first = "ERR"
    BY <1>4, Zenon DEF Simple
  <2> HIDE DEF p
  <2>2. Fits(p, job)
    BY <1>10, <2>1, Zenon DEF Fits, InResult
  <2> QED BY <1>1, <1>3, <1>5, <1>10, <2>1, <2>2, Zenon DEF p
<1>11. CASE /\ job.at = "ok" /\ UNCHANGED <<session, link>>
            /\ \E first \in {"OK", "ERR"} : Send(Simple(first), Rest)
  <2>1. PICK first \in {"OK", "ERR"} : Send(Simple(first), Rest)
    BY <1>11, Zenon
  <2> DEFINE p == Simple(first)
  <2>2. p \in Packets /\ p.first = first
    BY Zenon DEF Simple, Packet, Packets
  <2> HIDE DEF p
  <2>3. Fits(p, job)
    BY <1>11, <2>2, Zenon DEF Fits, InResult
  <2> QED BY <1>1, <1>3, <1>5, <1>11, <2>1, <2>2, <2>3, Zenon DEF p
<1>12. CASE /\ job.at \in {"result", "column", "row"} /\ UNCHANGED <<session, link>>
            /\ Send(ResultPacket(job), AfterResult(job))
  <2> DEFINE p == ResultPacket(job)
             j == AfterResult(job)
  <2>1. /\ p \in Packets /\ j \in Jobs /\ Possible(j) /\ (j = Rest \/ j.at \in InResult)
        /\ job.at \in InResult
    BY <1>1, <1>12, ResultFacts, Zenon DEF InResult
  <2>2. Fits(p, job)
    BY <1>12, <2>1, Zenon DEF Fits, InResult
  <2>3. Follow([p |-> p, seq |-> seq, job |-> job]) = j
    BY <2>1, Zenon DEF Follow
  <2>4. Send(p, j)
    BY <1>12, Zenon
  <2> HIDE DEF p, j
  <2>5. unread # "answer" => session' = "ready" /\ session' = session
    BY <1>1, <1>12, Zenon DEF Session, InResult
  <2>6. j.at \notin {"greeting", "auth", "fast", "refuse"}
    BY <1>2, <2>1, Zenon DEF InResult
  <2>7. link' = "up" /\ session' \in {"none", "login", "ready"}
    BY <1>1, <1>12, Zenon
  <2> QED BY <1>1, <2>1, <2>2, <2>3, <2>4, <2>5, <2>6, <2>7, SendStep, Zenon
<1> QED BY <1>6, <1>7, <1>8, <1>9, <1>10, <1>11, <1>12, Zenon DEF SendAnswer

\* The next event of a stream, or its end.
LEMMA SendEventStep == ASSUME QInv, SendEvent PROVE QInv'
<1>1. /\ link = "up" /\ job \in Jobs /\ session \in {"none", "login", "ready"} /\ job.at = "event"
      /\ link' = "up" /\ session' = session
      /\ unread # "answer" => session = "ready"
  BY Zenon DEF QInv, Types, SendEvent, Good, Session
<1>2. CASE Send(Packet("OK", FALSE, job.rows > 0, job.rows + 1), [job EXCEPT !.rows = @ + 1])
  <2> DEFINE p == Packet("OK", FALSE, job.rows > 0, job.rows + 1)
             j == [job EXCEPT !.rows = @ + 1]
  <2>1. job.rows \in Nat /\ (job.rows > 0) \in BOOLEAN /\ job.rows + 1 \in Nat
    BY <1>1 DEF Jobs
  <2>2. p \in Packets /\ p.first = "OK"
    BY <2>1, Zenon DEF Packet, Packets
  <2>3. j \in Jobs /\ j.at = "event"
    BY <1>1, <2>1, Zenon DEF Jobs
  <2>4. Possible(j)
    BY <2>3, Zenon DEF Possible, InResult
  <2>5. Fits(p, job)
    BY <1>1, <2>2, Zenon DEF Fits, InResult
  <2>6. Follow([p |-> p, seq |-> seq, job |-> job]) = j
    BY <1>1, <2>2, Zenon DEF Follow, InResult
  <2>7. Send(p, j)
    BY <1>2, Zenon
  <2> HIDE DEF p, j
  <2> QED BY <1>1, <2>2, <2>3, <2>4, <2>5, <2>6, <2>7, SendStep, Zenon
<1>3. ASSUME NEW first \in {"EOF", "ERR"}, Send(Simple(first), Rest) PROVE QInv'
  <2> DEFINE p == Simple(first)
  <2>1. p \in Packets /\ p.first = first
    BY Zenon DEF Simple, Packet, Packets
  <2>2. Send(p, Rest)
    BY <1>3, Zenon
  <2> HIDE DEF p
  <2>3. Fits(p, job)
    BY <1>1, <2>1, Zenon DEF Fits, InResult
  <2>4. Follow([p |-> p, seq |-> seq, job |-> job]) = Rest
    BY <1>1, <2>1, Zenon DEF Follow, InResult
  <2>5. Rest.at \notin InResult \cup {"greeting", "auth", "fast", "refuse", "ok", "event"}
    BY RestFacts, Zenon DEF InResult
  <2> QED BY <1>1, <2>1, <2>2, <2>3, <2>4, <2>5, RestFacts, SendStep, Zenon
<1> QED BY <1>2, <1>3, Zenon DEF SendEvent

\* The server reads the request that the client waits for the answer of.
LEMMA ServeStep == ASSUME QInv, Serve PROVE QInv'
<1> DEFINE r == Head(up)
<1>1. /\ Types /\ Linked /\ (unread # "answer" => Good) /\ link = "up" /\ job = Rest /\ up # <<>>
      /\ UNCHANGED <<fd, next_seq, binlog_read_state, call, outcome, link, session, down, got, unread>>
  BY Zenon DEF QInv, Serve, client, history
<1>2. /\ r \in Requests /\ up' \in Seq(Requests) /\ r = up[1] /\ (Len(up) = 1 => up' = <<>>)
  <2>1. up' = Tail(up) /\ up \in Seq(Requests)
    BY <1>1, Zenon DEF Serve, Types
  <2> QED BY <1>1, <2>1, TailFacts, EmptyFact
<1>3. /\ r.op \in {"login", "query", "init_db", "dump"} /\ r.seq \in Nat /\ r.script \in Seq(Results)
      /\ r.op = "query" => r.script # <<>>
  BY <1>2, Zenon DEF Requests
<1>4. /\ seq' = (r.seq + 1) % SEQ
      /\ job' = IF session = "login" THEN Do(IF r.op = "login" THEN "auth" ELSE "refuse")
                ELSE IF r.op = "query" THEN Job("result", 1, 0, r.script)
                ELSE Do(IF r.op = "dump" THEN "event" ELSE "ok")
  BY Zenon DEF Serve
<1> HIDE DEF r
<1>5. /\ Do("auth") \in Jobs /\ Do("auth").at = "auth" /\ Possible(Do("auth"))
      /\ Do("refuse") \in Jobs /\ Do("refuse").at = "refuse" /\ Possible(Do("refuse"))
      /\ Do("ok") \in Jobs /\ Do("ok").at = "ok" /\ Possible(Do("ok"))
      /\ Do("event") \in Jobs /\ Do("event").at = "event" /\ Do("event").rows = 0 /\ Possible(Do("event"))
  BY DoFacts, Zenon
<1>6. r.op = "query" =>
        /\ Job("result", 1, 0, r.script) \in Jobs /\ Possible(Job("result", 1, 0, r.script))
        /\ Job("result", 1, 0, r.script).at = "result" /\ Job("result", 1, 0, r.script).i = 1
        /\ Job("result", 1, 0, r.script).script = r.script
  <2>1. "result" \in InResult
    BY Zenon DEF InResult
  <2>2. r.op = "query" => 1 \in 1..Len(r.script)
    BY <1>3, EmptyFact
  <2> QED BY <1>3, <2>1, <2>2, JobFacts DEF Possible
<1>7. job' \in Jobs /\ Possible(job')
  BY <1>4, <1>5, <1>6, Zenon
<1>8. Types'
  BY <1>1, <1>2, <1>3, <1>4, <1>7, CountFact, Zenon DEF Types
<1>9. Linked'
  BY <1>1, <1>7, Zenon DEF Linked
<1>10. ASSUME unread # "answer" PROVE Good'
  <2>1. Chained /\ Session /\ Collected /\ InStep /\ Events /\ ResultsComplete /\ outcome.how # "sequence"
    BY <1>1, <1>10, Zenon DEF Good
  <2>2. down = <<>> /\ up' = <<>> /\ Asked(r)
    BY <1>1, <1>2, <2>1, Zenon DEF InStep
  <2>3. Chained'
    BY <1>1, <2>2 DEF Chained
  <2>4. session \in {"login", "ready"}
    BY <1>1, <2>1, Zenon DEF Types, Session
  <2>5. Session'
    BY <1>1, <1>4, <1>5, <1>6, <2>2, <2>4 DEF Session, InResult
  <2>6. Awaiting /\ seq' = next_seq
    BY <1>4, <2>2, Zenon DEF Asked, Awaiting
  <2>7. Wants(job')
    <3>1. call.wait \notin {"none", "event"} => unread # "stream"
      BY <2>1, Zenon DEF Events
    <3>2. CASE r.op = "login" /\ call.wait = "auth" /\ session = "login"
      BY <1>4, <1>5, <3>1, <3>2, Zenon DEF Wants, InResult
    <3>3. CASE r.op = "query" /\ call.wait = "result" /\ call.ret = <<>> /\ r.script = call.script
      <4>1. Len(call.ret) + 1 = 1
        BY <3>3
      <4> QED BY <1>4, <1>5, <1>6, <2>4, <3>1, <3>3, <4>1, Zenon DEF Wants, InResult
    <3>4. CASE r.op = "init_db" /\ call.wait = "ok"
      BY <1>4, <1>5, <2>4, <3>1, <3>4, Zenon DEF Wants, InResult
    <3>5. CASE r.op = "dump" /\ unread = "stream" /\ got = <<>> /\ session = "ready"
      <4>1. call.wait \in {"none", "event"} /\ Len(got) = 0
        BY <2>1, <3>5, Zenon DEF Events
      <4> QED BY <1>4, <1>5, <3>5, <4>1, Zenon DEF Wants, InResult
    <3> QED BY <2>2, <3>2, <3>3, <3>4, <3>5, Zenon DEF Asked
  <2>8. InStep'
    <3>1. Awaiting' /\ Wants(job)' /\ seq' = next_seq'
      BY <1>1, <2>6, <2>7, Zenon DEF Awaiting, Wants
    <3> QED BY <1>1, <2>2, <3>1, Zenon DEF InStep
  <2>9. Collected' /\ Events' /\ ResultsComplete' /\ outcome'.how # "sequence"
    BY <1>1, <2>1, Zenon DEF Collected, Events, ResultsComplete
  <2> QED BY <2>3, <2>5, <2>8, <2>9, Zenon DEF Good
<1> QED BY <1>1, <1>8, <1>9, <1>10, Zenon DEF QInv

\* The connection fails: what has arrived is the beginning of what was sent.
LEMMA LoseStep == ASSUME QInv, Lose PROVE QInv'
<1>1. /\ Types /\ Linked /\ (unread # "answer" => Good) /\ link = "up"
      /\ link' = "lost" /\ session' = "none" /\ job' = Rest /\ up' = <<>>
      /\ UNCHANGED <<fd, next_seq, binlog_read_state, call, outcome, seq, got, unread>>
  BY Zenon DEF QInv, Lose, client, history
<1>2. PICK n \in 0..Len(down) : down' = SubSeq(down, 1, n)
  BY Zenon DEF Lose
<1>3. up' \in Seq(Requests) /\ down' \in Seq(Messages)
  <2>1. <<>> \in Seq(Requests)
    OBVIOUS
  <2>2. down' \in Seq(Messages)
    BY <1>1, <1>2, PrefixFacts, Zenon DEF Types
  <2> QED BY <1>1, <2>1, <2>2, Zenon
<1>4. Types' /\ Linked'
  BY <1>1, <1>3, RestFacts, Zenon DEF Types, Linked
<1>5. ASSUME unread # "answer" PROVE Good'
  <2>1. Chained /\ Session /\ Collected /\ InStep /\ Events /\ ResultsComplete /\ outcome.how # "sequence"
    BY <1>1, <1>5, Zenon DEF Good
  <2>2. Chained' /\ (down' # <<>> => down # <<>> /\ down'[1] = down[1])
    BY <1>1, <1>2, <2>1, CutChained, Zenon
  <2>3. Session'
    BY <1>1, Zenon DEF Session
  <2>4. InStep'
    <3>1. Awaiting' <=> Awaiting
      BY <1>1, Zenon DEF Awaiting
    <3>2. CASE down' = <<>>
      BY <1>1, <3>1, <3>2, Zenon DEF InStep
    <3>3. CASE down' # <<>>
      <4>1. Awaiting /\ Wants(down[1].job) /\ down[1].seq = next_seq
        BY <2>1, <2>2, <3>3, Zenon DEF InStep
      <4>2. Wants(down[1].job)' /\ down'[1].seq = next_seq'
        BY <1>1, <2>2, <3>3, <4>1, Zenon DEF Wants
      <4> QED BY <1>1, <3>1, <3>3, <4>1, <4>2, Zenon DEF InStep
    <3> QED BY <3>2, <3>3, Zenon
  <2>5. Collected' /\ Events' /\ ResultsComplete' /\ outcome'.how # "sequence"
    BY <1>1, <2>1, Zenon DEF Collected, Events, ResultsComplete
  <2> QED BY <2>2, <2>3, <2>4, <2>5, Zenon DEF Good
<1> QED BY <1>1, <1>4, <1>5, Zenon DEF QInv

-----------------------------------------------------------------------------
(* The methods begin *)

\* A method that waits, and one that does not.
LEMMA CallFacts ==
  /\ Idle \in Calls /\ Idle.wait = "none" /\ Idle.op = "none"
  /\ \A op \in {"connect", "change_db", "query_multi", "query", "read_binlogs", "get_binlog_event"},
        wait \in {"greeting", "auth", "ok", "result", "event"} :
       /\ Waiting(op, wait) \in Calls /\ Waiting(op, wait).wait = wait /\ Waiting(op, wait).op = op
       /\ Waiting(op, wait).ret = <<>> /\ Waiting(op, wait).script = <<>>
<1>1. <<>> \in Seq(Results) /\ FALSE \in BOOLEAN
  OBVIOUS
<1>2. Idle \in Calls /\ Idle.wait = "none" /\ Idle.op = "none" /\ Idle.ret = <<>> /\ Idle.script = <<>>
  BY <1>1 DEF Idle, Calls
<1> QED BY <1>1, <1>2, ZenonT(60) DEF Idle, Waiting, Calls

\* How a method ended.
LEMMA OutcomeFacts ==
  ASSUME NEW op, NEW how, NEW ret, NEW script
  PROVE  /\ Outcome(op, how, ret, script).op = op /\ Outcome(op, how, ret, script).how = how
         /\ Outcome(op, how, ret, script).ret = ret /\ Outcome(op, how, ret, script).script = script
  BY Zenon DEF Outcome

\* A method that gives up, or is in progress, has no results to show.
Silent == outcome.how # "sequence" /\ ~(outcome.op \in {"query", "query_multi"} /\ outcome.how = "returned")

\* Nothing changes but what is reported.
LEMMA QuietStep ==
  ASSUME QInv, UNCHANGED <<fd, next_seq, binlog_read_state, call, link, session, job, seq, up, down, got, unread>>, Silent'
  PROVE  QInv'
<1>1. Types' /\ Linked'
  BY Zenon DEF QInv, Types, Linked
<1>2. ASSUME unread # "answer" PROVE Good'
  <2>1. Good
    BY <1>2, Zenon DEF QInv
  <2>2. Chained' /\ Session' /\ Collected' /\ Events'
    BY <2>1, Zenon DEF Good, Chained, Session, Collected, Events
  <2>3. InStep'
    BY <2>1, ZenonT(60) DEF Good, InStep, Awaiting, Wants, Asked
  <2>4. ResultsComplete' /\ outcome'.how # "sequence"
    BY Zenon DEF Silent, ResultsComplete
  <2> QED BY <2>2, <2>3, <2>4, Zenon DEF Good
<1> QED BY <1>1, <1>2, Zenon DEF QInv

\* Between two methods there is nothing on the way, unless a stream is.
LEMMA IdleFacts ==
  ASSUME QInv, call = Idle, unread = "nothing"
  PROVE  Good /\ ~Awaiting /\ down = <<>> /\ up = <<>> /\ job = Rest
<1>1. Good /\ call.wait = "none"
  BY CallFacts, Zenon DEF QInv
<1>2. ~Awaiting
  BY <1>1, Zenon DEF Awaiting
<1> QED BY <1>1, <1>2, Zenon DEF Good, InStep

LEMMA connectStep == ASSUME QInv, connect PROVE QInv'
<1>1. call = Idle /\ UNCHANGED <<up, down, got, unread>> /\ Types /\ Linked
  BY Zenon DEF connect, history, QInv
<1>2. ASSUME NEW how \in {"returned", "lost"}, Refuse("connect", how), UNCHANGED <<client, call, link, server>> PROVE QInv'
  <2>1. Silent'
    BY <1>2, OutcomeFacts DEF Silent, Refuse
  <2> QED BY <1>1, <1>2, <2>1, QuietStep, Zenon DEF client, server
<1>3. CASE /\ ~fd /\ fd' = TRUE /\ next_seq' = 0
           /\ link' = "up" /\ session' = "login" /\ job' = Do("greeting") /\ seq' = 0
           /\ call' = Waiting("connect", "greeting") /\ outcome' = Nothing
           /\ UNCHANGED <<binlog_read_state, faults>>
  <2>1. unread = "nothing"
    BY <1>1, <1>3, Zenon DEF Linked
  <2>2. Good /\ ~Awaiting /\ down = <<>> /\ up = <<>> /\ job = Rest
    BY <1>1, <2>1, IdleFacts, Zenon
  <2>3. call' \in Calls /\ call'.wait = "greeting" /\ call'.op = "connect"
    BY <1>3, CallFacts
  <2>4. job' \in Jobs /\ job'.at = "greeting" /\ Possible(job')
    BY <1>3, DoFacts, Zenon
  <2>5. Types'
    BY <1>1, <1>3, <2>3, <2>4, Zenon DEF Types
  <2>6. Linked'
    BY <1>3, <2>4, Zenon DEF Linked
  <2>7. Chained' /\ Session'
    BY <1>1, <1>3, <2>2, <2>4 DEF Chained, Session, InResult
  <2>8. Collected' /\ Events'
    BY <1>1, <2>1, <2>2, <2>3, Zenon DEF Collected, Events, InResult, Good
  <2>9. InStep'
    <3>1. Awaiting' /\ Wants(job)' /\ seq' = next_seq'
      BY <1>1, <1>3, <2>1, <2>3, <2>4, Zenon DEF Awaiting, Wants, InResult
    <3> QED BY <1>1, <1>3, <2>2, <3>1, Zenon DEF InStep
  <2>10. ResultsComplete' /\ outcome'.how # "sequence"
    BY <1>3, OutcomeFacts DEF ResultsComplete, Nothing
  <2> QED BY <2>5, <2>6, <2>7, <2>8, <2>9, <2>10, Zenon DEF QInv, Good
<1> QED BY <1>2, <1>3, Zenon DEF connect

LEMMA quitStep == ASSUME QInv, quit PROVE QInv'
<1>1. call = Idle /\ call' = call /\ seq' = seq /\ Types /\ Linked
  BY Zenon DEF quit, QInv
<1>2. CASE ~fd /\ Refuse("quit", "not open") /\ UNCHANGED <<client, link, session, job, up, down, history>>
  <2>1. outcome'.op = "quit" /\ outcome'.how = "not open"
    BY <1>2, Zenon DEF Refuse, Outcome
  <2>2. Silent'
    BY <2>1, Zenon DEF Silent
  <2> QED BY <1>1, <1>2, <2>2, QuietStep, Zenon DEF client, history
<1>3. CASE /\ next_seq' = 1 % SEQ /\ fd' = FALSE /\ link' = "none" /\ session' = "none" /\ job' = Rest
           /\ up' = <<>> /\ down' = <<>> /\ unread' = "nothing" /\ got' = <<>>
           /\ Refuse("quit", "returned")
  <2>1. /\ <<>> \in Seq(Requests) /\ <<>> \in Seq(Messages) /\ <<>> \in Seq([n : Nat, had : BOOLEAN, stripped : BOOLEAN])
        /\ next_seq' \in Nat /\ Len(<<>>) = 0
    BY <1>3, SEQAssumption
  <2>2. Types' /\ Linked'
    BY <1>1, <1>3, <2>1, RestFacts, Zenon DEF Types, Linked
  <2>3. call'.wait = "none" /\ call'.op = "none"
    BY <1>1, CallFacts, Zenon
  <2>4. Chained' /\ Session' /\ Collected' /\ Events' /\ InStep'
    BY <1>3, <2>1, <2>3 DEF Chained, Session, Collected, Events, InStep, InResult, Awaiting
  <2>5. ResultsComplete' /\ outcome'.how # "sequence"
    BY <1>3, OutcomeFacts DEF ResultsComplete, Refuse
  <2> QED BY <2>2, <2>4, <2>5, Zenon DEF QInv, Good
<1>4. CASE /\ fd /\ next_seq' = 1 % SEQ /\ link # "up" /\ unread' = "answer"
           /\ UNCHANGED <<fd, link, session, job, up, down, got>>
  <2>1. next_seq' \in Nat
    BY <1>4, SEQAssumption
  <2> QED BY <1>1, <1>4, <2>1, Zenon DEF QInv, Types, Linked
<1> QED BY <1>2, <1>3, <1>4, Zenon DEF quit

LEMMA get_binlog_eventStep == ASSUME QInv, get_binlog_event PROVE QInv'
<1>1. /\ call = Idle /\ Types /\ Linked /\ call.wait = "none"
      /\ UNCHANGED <<fd, next_seq, binlog_read_state, link, session, job, seq, up, down, got, unread>>
  BY CallFacts, Zenon DEF get_binlog_event, QInv, client, server, history
<1>2. ASSUME NEW how \in {"not reading", "not open"}, Refuse("get_binlog_event", how), call' = call PROVE QInv'
  <2>1. outcome'.op = "get_binlog_event" /\ outcome'.how = how
    BY <1>2, Zenon DEF Refuse, Outcome
  <2>2. Silent'
    BY <2>1, Zenon DEF Silent
  <2> QED BY <1>1, <1>2, <2>2, QuietStep, Zenon
<1>3. CASE fd /\ call' = Waiting("get_binlog_event", "event") /\ outcome' = Nothing
  <2>1. call' \in Calls /\ call'.wait = "event" /\ call'.op = "get_binlog_event"
    BY <1>3, CallFacts, Zenon
  <2>2. Types' /\ Linked'
    BY <1>1, <1>3, <2>1, Zenon DEF Types, Linked
  <2>3. ASSUME unread # "answer" PROVE Good'
    <3>1. Good
      BY <2>3, Zenon DEF QInv
    <3>2. Chained' /\ Session'
      BY <1>1, <3>1, Zenon DEF Good, Chained, Session
    <3>3. Collected' /\ Events'
      BY <1>1, <2>1, <3>1, Zenon DEF Good, Collected, Events, InResult
    <3>4. InStep'
      <4>1. Awaiting' <=> Awaiting
        BY <1>1, <2>1, Zenon DEF Awaiting
      <4>2. \A j : Wants(j) => Wants(j)'
        BY <1>1, <2>1, Zenon DEF Wants, InResult
      <4>3. \A r : Asked(r) => Asked(r)'
        BY <1>1, <2>1, Zenon DEF Asked
      <4>4. Wants(down[1].job) => Wants(down[1].job)'
        BY <1>1, <4>2, Zenon
      <4>5. Wants(job) => Wants(job)'
        BY <1>1, <4>2, Zenon
      <4>6. Asked(up[1]) => Asked(up[1])'
        BY <1>1, <4>3, Zenon
      <4> QED BY <1>1, <3>1, <4>1, <4>4, <4>5, <4>6, Zenon DEF Good, InStep
    <3>5. ResultsComplete' /\ outcome'.how # "sequence"
      BY <1>3, OutcomeFacts DEF ResultsComplete, Nothing
    <3> QED BY <3>2, <3>3, <3>4, <3>5, Zenon DEF Good
  <2> QED BY <1>1, <2>2, <2>3, Zenon DEF QInv
<1> QED BY <1>2, <1>3, Zenon DEF get_binlog_event

\* change_db and the queries: the request is the only thing on its way.
LEMMA CommandStep ==
  ASSUME QInv, unread # "stream",
         NEW op \in {"change_db", "query_multi", "query", "read_binlogs"}, NEW r \in {"init_db", "query"},
         NEW w \in Calls, w.op = op, w.ret = <<>>,
         \/ r = "init_db" /\ w.wait = "ok" /\ op = "change_db"
         \/ r = "query" /\ w.wait = "result" /\ w.script # <<>> /\ op # "change_db",
         Command(op, r, w)
  PROVE  QInv'
<1>1. /\ call = Idle /\ call.wait = "none" /\ Types /\ Linked
      /\ UNCHANGED <<fd, binlog_read_state, link, session, job, seq, down, got, unread>>
  BY CallFacts, Zenon DEF Command, May, QInv, server, history
<1>2. CASE ~fd
  <2>1. Refuse(op, "not open") /\ UNCHANGED <<next_seq, call, up>>
    BY <1>2, Zenon DEF Command
  <2>2. outcome'.how = "not open"
    BY <2>1, Zenon DEF Refuse, Outcome
  <2>3. Silent'
    BY <2>2, Zenon DEF Silent
  <2> QED BY <1>1, <2>1, <2>3, QuietStep, Zenon
<1>3. CASE fd
  <2>1. write_command(r, 0, w)
    BY <1>3, Zenon DEF Command
  <2>2. next_seq' = 1 % SEQ /\ next_seq' \in Nat
    BY <2>1, SEQAssumption DEF write_command
  <2>3. unread = "nothing" => Good /\ down = <<>> /\ up = <<>> /\ job = Rest
    BY <1>1, IdleFacts, Zenon
  <2>4. unread \in {"nothing", "answer"}
    BY <1>1, Zenon DEF Types
  <2>5. unread = "nothing" => Chained' /\ Session'
    BY <1>1, <2>3, Zenon DEF Good, Chained, Session
  <2>6. CASE link # "up" /\ Refuse(op, "lost") /\ call' = Idle /\ up' = up
    <3>1. Types' /\ Linked'
      BY <1>1, <1>3, <2>2, <2>6, Zenon DEF Types, Linked
    <3>2. outcome'.how = "lost"
      BY <2>6, Zenon DEF Refuse, Outcome
    <3>3. call'.wait = "none" /\ call'.op = "none"
      BY <2>6, CallFacts, Zenon
    <3>4. unread = "nothing" => Collected' /\ Events' /\ InStep'
      BY <1>1, <2>3, <2>6, <3>3, Zenon DEF Good, Collected, Events, InStep, InResult, Awaiting
    <3>5. ResultsComplete' /\ outcome'.how # "sequence"
      BY <3>2, Zenon DEF ResultsComplete
    <3> QED BY <1>1, <2>4, <2>5, <3>1, <3>4, <3>5, Zenon DEF QInv, Good
  <2>7. CASE Put(r, 0, w.script) /\ call' = w /\ outcome' = Nothing
    <3> DEFINE q == [op |-> r, seq |-> 0, script |-> w.script]
    <3>1. q \in Requests /\ q.op = r /\ q.seq = 0 /\ q.script = w.script
      <4>1. w.script \in Seq(Results)
        BY Zenon DEF Calls
      <4> QED BY <4>1, Zenon DEF Requests
    <3>2. up' = IF link = "up" THEN Append(up, q) ELSE up
      BY <2>7, Zenon DEF Put
    <3> HIDE DEF q
    <3>3. up' \in Seq(Requests) /\ (link = "up" /\ up = <<>> => Len(up') = 1 /\ up'[1] = q)
      BY <1>1, <3>1, <3>2, AppendFacts DEF Types
    <3>4. Types'
      BY <1>1, <2>2, <2>7, <3>3, Zenon DEF Types
    <3>5. Linked'
      BY <1>1, <1>3, Zenon DEF Linked
    <3>6. ResultsComplete' /\ outcome'.how # "sequence"
      BY <2>7, OutcomeFacts DEF ResultsComplete, Nothing
    <3>7. ASSUME unread = "nothing" PROVE Collected' /\ Events' /\ InStep'
      <4>1. Events'
        BY <1>1, <2>3, <3>7, Zenon DEF Good, Events
      <4>2. Collected'
        <5>1. w.wait \in InResult => w.script \in Seq(Results) /\ w.script # <<>>
          BY Zenon DEF InResult, Calls
        <5>2. w.wait \in InResult => 0 < Len(w.script)
          BY <5>1, EmptyFact
        <5>3. Len(w.ret) = 0 /\ (w.op \in {"query", "query_multi", "read_binlogs"} <=> w.wait \in InResult)
          BY Zenon DEF InResult
        <5> QED BY <2>7, <5>2, <5>3 DEF Collected
      <4>3. Awaiting'
        BY <2>7, Zenon DEF Awaiting
      <4>4. CASE link = "up"
        <5>1. Asked(q)'
          BY <2>2, <2>7, <3>1 DEF Asked
        <5>2. Asked(up[1])'
          BY <2>3, <3>3, <3>7, <4>4, <5>1, Zenon
        <5>3. Len(up') = 1 /\ up' # <<>>
          <6>1. Len(up') = 1 /\ Len(<<>>) = 0
            BY <2>3, <3>3, <3>7, <4>4, Zenon
          <6>2. 1 # 0
            OBVIOUS
          <6> QED BY <6>1, <6>2, Zenon
        <5> QED BY <1>1, <2>3, <3>7, <4>1, <4>2, <4>3, <4>4, <5>2, <5>3, Zenon DEF InStep
      <4>5. CASE link # "up"
        BY <1>1, <2>3, <3>2, <3>7, <4>1, <4>2, <4>3, <4>5, Zenon DEF InStep
      <4> QED BY <4>4, <4>5, Zenon
    <3> QED BY <1>1, <2>4, <2>5, <3>4, <3>5, <3>6, <3>7, Zenon DEF QInv, Good
  <2> QED BY <2>1, <2>6, <2>7, Zenon DEF write_command
<1> QED BY <1>1, <1>2, <1>3, Zenon DEF Types

LEMMA change_dbStep == ASSUME QInv, change_db PROVE QInv'
<1> DEFINE w == Waiting("change_db", "ok")
<1>1. w \in Calls /\ w.op = "change_db" /\ w.ret = <<>> /\ w.wait = "ok"
  BY CallFacts
<1>2. Command("change_db", "init_db", w) /\ unread # "stream"
  BY Zenon DEF change_db, NoStream
<1> HIDE DEF w
<1> QED BY <1>1, <1>2, CommandStep, Zenon

\* A query of any script.
LEMMA QueryStep ==
  ASSUME QInv, unread # "stream", NEW op \in {"query_multi", "query", "read_binlogs"},
         NEW script \in Seq(Results), script # <<>>, Query(op, script)
  PROVE  QInv'
<1> DEFINE w == [Waiting(op, "result") EXCEPT !.script = script]
<1>1. w \in Calls /\ w.op = op /\ w.ret = <<>> /\ w.wait = "result" /\ w.script = script
  <2>1. /\ Waiting(op, "result") \in Calls /\ Waiting(op, "result").op = op /\ Waiting(op, "result").ret = <<>>
        /\ Waiting(op, "result").wait = "result"
    BY CallFacts
  <2> QED BY <2>1, Zenon DEF Calls
<1>2. Command(op, "query", w)
  BY Zenon DEF Query
<1> HIDE DEF w
<1> QED BY <1>1, <1>2, CommandStep, Zenon

\* The statements of a query.
LEMMA ScriptFacts ==
  /\ \A script \in Scripts : script \in Seq(Results) /\ script # <<>>
  /\ SetChecksum \in Seq(Results) /\ SetChecksum # <<>>
<1>1. Statements \subseteq Results
  BY RowsAssumption DEF Statements, Results
<1>2. ASSUME NEW script \in Scripts PROVE script \in Seq(Results) /\ script # <<>>
  <2>1. PICK n \in 1..MaxScript : script \in [1..n -> Statements]
    BY <1>2, Zenon DEF Scripts
  <2>2. n \in Nat \ {0} /\ script \in [1..n -> Results]
    BY <1>1, <2>1
  <2>3. script \in Seq(Results)
    BY <2>2
  <2>4. Len(script) = n
    BY <2>2, <2>3
  <2> QED BY <2>2, <2>3, <2>4, EmptyFact, Zenon
<1>3. SetChecksum \in Seq(Results) /\ SetChecksum # <<>>
  <2>1. [kind |-> "ok", rows |-> 0] \in Results
    BY Zenon DEF Results
  <2> QED BY <2>1 DEF SetChecksum
<1> QED BY <1>2, <1>3, Zenon

LEMMA QueriesStep == ASSUME QInv, query \/ query_multi \/ read_binlogs PROVE QInv'
<1>1. CASE query
  BY <1>1, QueryStep, ScriptFacts, Zenon DEF query, NoStream
<1>2. CASE query_multi
  BY <1>2, QueryStep, ScriptFacts, Zenon DEF query_multi, NoStream
<1>3. CASE read_binlogs
  BY <1>3, QueryStep, ScriptFacts, Zenon DEF read_binlogs, NoStream
<1> QED BY <1>1, <1>2, <1>3, Zenon

-----------------------------------------------------------------------------
(* The methods go on *)

\* Whatever comes, the state keeps its types.
LEMMA DoneTypes ==
  ASSUME Types, call.wait # "none", NEW st \in Results, NEW more, NEW left \in BOOLEAN, ResultDone(st, more, left)
  PROVE  /\ next_seq' \in Nat /\ call' \in Calls /\ (call'.wait = "none" => call' = Idle)
         /\ up' \in Seq(Requests) /\ got' \in Seq([n : Nat, had : BOOLEAN, stripped : BOOLEAN])
         /\ unread' \in {"nothing", "answer", "stream"} /\ (unread = "answer" => unread' = "answer")
<1>1. /\ next_seq \in Nat /\ call \in Calls /\ up \in Seq(Requests) /\ call.ret \in Seq(Results)
      /\ got \in Seq([n : Nat, had : BOOLEAN, stripped : BOOLEAN]) /\ unread \in {"nothing", "answer", "stream"}
  BY Zenon DEF Types, Calls
<1>2. (next_seq + 1) % SEQ \in Nat /\ 1 % SEQ \in Nat
  BY <1>1, SEQAssumption
<1>3. CASE more
  <2>1. Append(call.ret, st) \in Seq(Results)
    BY <1>1
  <2>2. /\ call' = [call EXCEPT !.wait = "result", !.ret = Append(@, st), !.left = left]
        /\ next_seq' = (next_seq + 1) % SEQ /\ UNCHANGED <<up, got, unread>>
    BY <1>3, Zenon DEF ResultDone, Go, Counted, Same
  <2>3. call' \in Calls /\ call'.wait = "result"
    BY <1>1, <2>1, <2>2, Zenon DEF Calls
  <2> QED BY <1>1, <1>2, <2>2, <2>3, Zenon
<1>4. CASE ~more
  <2>1. QueryDone(Append(call.ret, st))
    BY <1>4, Zenon DEF ResultDone
  <2>2. call' = Idle /\ next_seq' \in {(next_seq + 1) % SEQ, 1 % SEQ}
    BY <2>1, Zenon DEF QueryDone, End, Counted
  <2>3. \/ UNCHANGED <<up, got, unread>>
        \/ Put("dump", 0, <<>>) /\ got' = <<>> /\ Unread("stream")
    BY <2>1, Zenon DEF QueryDone, Same
  <2>4. Put("dump", 0, <<>>) => up' \in Seq(Requests)
    <3>1. [op |-> "dump", seq |-> 0, script |-> <<>>] \in Requests
      BY DEF Requests
    <3> QED BY <1>1, <3>1, AppendFacts DEF Put
  <2>5. <<>> \in Seq([n : Nat, had : BOOLEAN, stripped : BOOLEAN])
    OBVIOUS
  <2>6. next_seq' \in Nat /\ call' \in Calls /\ call' = Idle
    BY <1>2, <2>2, CallFacts
  <2>7. up' \in Seq(Requests) /\ got' \in Seq([n : Nat, had : BOOLEAN, stripped : BOOLEAN])
    BY ONLY <1>1, <2>3, <2>4, <2>5, Zenon
  <2>8. unread' \in {"nothing", "answer", "stream"} /\ (unread = "answer" => unread' = "answer")
    BY <1>1, <2>3, Zenon DEF Unread
  <2> QED BY <2>6, <2>7, <2>8, Zenon
<1> QED BY <1>3, <1>4, Zenon

LEMMA HandleTypes ==
  ASSUME Types, call.wait # "none", NEW p \in Packets, Handle(p)
  PROVE  /\ next_seq' \in Nat /\ call' \in Calls /\ (call'.wait = "none" => call' = Idle)
         /\ up' \in Seq(Requests) /\ got' \in Seq([n : Nat, had : BOOLEAN, stripped : BOOLEAN])
         /\ unread' \in {"nothing", "answer", "stream"} /\ (unread = "answer" => unread' = "answer")
<1>1. /\ next_seq \in Nat /\ call \in Calls /\ up \in Seq(Requests) /\ call.ret \in Seq(Results)
      /\ call.rows \in Nat /\ call.columns \in Int
      /\ got \in Seq([n : Nat, had : BOOLEAN, stripped : BOOLEAN]) /\ unread \in {"nothing", "answer", "stream"}
  BY Zenon DEF Types, Calls
<1>2. (next_seq + 1) % SEQ \in Nat /\ (((next_seq + 1) % SEQ) + 1) % SEQ \in Nat
  BY <1>1, CountFact, Zenon
<1>3. p.extra \in BOOLEAN /\ p.n \in Nat /\ FALSE \in BOOLEAN
  BY Zenon DEF Packets
<1>4. \A how : End(how) => call' = Idle
  BY Zenon DEF End
<1>5. ASSUME NEW c, Go(c), c \in Calls, c.wait # "none"
      PROVE  /\ next_seq' \in Nat /\ call' \in Calls /\ call'.wait # "none" /\ UNCHANGED <<up, got, unread>>
  BY <1>2, <1>5, Zenon DEF Go, Counted, Same
<1>6. ASSUME call' = Idle, Counted, Same
      PROVE  /\ next_seq' \in Nat /\ call' \in Calls /\ call' = Idle /\ UNCHANGED <<up, got, unread>>
  BY <1>2, <1>6, CallFacts, Zenon DEF Counted, Same
<1>7. CASE call.wait = "greeting" /\ initial_handshake(p)
  <2>1. UNCHANGED <<got, unread>>
    BY <1>7, Zenon DEF initial_handshake
  <2>2. CASE End("unexpected") /\ Counted /\ UNCHANGED up
    BY <1>1, <1>2, <1>4, <2>1, <2>2, CallFacts DEF Counted
  <2>3. CASE write_command("login", (next_seq + 1) % SEQ, Waiting("connect", "auth"))
    <3>1. next_seq' \in Nat
      BY <1>2, <2>3, Zenon DEF write_command
    <3>2. call' = Idle \/ (call' \in Calls /\ call'.wait = "auth")
      BY <2>3, CallFacts DEF write_command
    <3>3. up' \in Seq(Requests)
      <4>1. [op |-> "login", seq |-> (next_seq + 1) % SEQ, script |-> Waiting("connect", "auth").script] \in Requests
        <5>1. Waiting("connect", "auth").script = <<>> /\ <<>> \in Seq(Results)
          BY CallFacts
        <5> QED BY <1>2, <5>1, Zenon DEF Requests
      <4>2. up' = up \/ up' = Append(up, [op |-> "login", seq |-> (next_seq + 1) % SEQ, script |-> Waiting("connect", "auth").script])
        BY <2>3, Zenon DEF write_command, Put
      <4>3. Append(up, [op |-> "login", seq |-> (next_seq + 1) % SEQ, script |-> Waiting("connect", "auth").script]) \in Seq(Requests)
        BY <1>1, <4>1, AppendFacts, Zenon
      <4> QED BY <1>1, <4>2, <4>3, Zenon
    <3> QED BY <1>1, <2>1, <3>1, <3>2, <3>3, CallFacts
  <2> QED BY <1>7, <2>2, <2>3, Zenon DEF initial_handshake
<1>8. CASE call.wait = "auth" /\ auth_response(p)
  <2>1. Counted /\ Same /\ (call' = call \/ call' = Idle)
    BY <1>4, <1>8, Zenon DEF auth_response
  <2> QED BY <1>1, <1>2, <1>6, <1>8, <2>1, Zenon DEF Counted, Same
<1>9. CASE call.wait = "ok" /\ expect_ok(p)
  BY <1>1, <1>4, <1>6, <1>9, Zenon DEF expect_ok, parse_error_body
<1>10. CASE call.wait = "result" /\ query_result(p)
  <2>1. CASE ResultDone([kind |-> "ok", rows |-> 0], p.more, p.extra)
    <3>1. [kind |-> "ok", rows |-> 0] \in Results
      BY Zenon DEF Results
    <3> QED BY <1>3, <2>1, <3>1, DoneTypes, Zenon
  <2>2. CASE Go([call EXCEPT !.wait = "column", !.columns = p.n, !.rows = 0])
    <3>1. [call EXCEPT !.wait = "column", !.columns = p.n, !.rows = 0] \in Calls
      <4>1. call \in Calls /\ p.n \in Int
        BY <1>1, <1>3
      <4> QED BY <4>1, Zenon DEF Calls
    <3>2. [call EXCEPT !.wait = "column", !.columns = p.n, !.rows = 0].wait # "none"
      BY <1>1, Zenon DEF Calls
    <3> QED BY <1>1, <1>5, <2>2, <3>1, <3>2, Zenon
  <2>3. CASE call' = Idle /\ Counted /\ Same
    BY <1>1, <1>6, <2>3, Zenon
  <2> QED BY <1>4, <1>10, <2>1, <2>2, <2>3, Zenon DEF query_result, parse_error_body
<1>11. CASE call.wait = "column" /\ query_column(p)
  <2>1. CASE Go([call EXCEPT !.columns = @ - 1, !.wait = IF call.columns = 1 THEN "row" ELSE @])
    <3> DEFINE c == [call EXCEPT !.columns = @ - 1, !.wait = IF call.columns = 1 THEN "row" ELSE @]
    <3>1. c \in Calls /\ c.wait # "none"
      <4>1. call \in Calls /\ call.columns - 1 \in Int /\ (IF call.columns = 1 THEN "row" ELSE call.wait) \in {"column", "row"}
        BY <1>1, <1>11
      <4> QED BY <4>1, Zenon DEF Calls
    <3>2. Go(c)
      BY <2>1, Zenon
    <3> HIDE DEF c
    <3> QED BY <1>1, <1>5, <3>1, <3>2, Zenon
  <2>2. CASE call' = Idle /\ Counted /\ Same
    BY <1>1, <1>6, <2>2, Zenon
  <2> QED BY <1>4, <1>11, <2>1, <2>2, Zenon DEF query_column
<1>12. CASE call.wait = "row" /\ query_row(p)
  <2>1. CASE ResultDone([kind |-> "rows", rows |-> call.rows], p.more, FALSE)
    <3>1. [kind |-> "rows", rows |-> call.rows] \in Results
      BY <1>1, Zenon DEF Results
    <3> QED BY <1>3, <2>1, <3>1, DoneTypes, Zenon
  <2>2. CASE Go([call EXCEPT !.rows = @ + 1])
    <3> DEFINE c == [call EXCEPT !.rows = @ + 1]
    <3>1. c \in Calls /\ c.wait # "none"
      <4>1. call \in Calls /\ call.rows + 1 \in Nat /\ call.wait = "row"
        BY <1>1, <1>12
      <4> QED BY <4>1, Zenon DEF Calls
    <3>2. Go(c)
      BY <2>2, Zenon
    <3> HIDE DEF c
    <3> QED BY <1>1, <1>5, <3>1, <3>2, Zenon
  <2>3. CASE call' = Idle /\ Counted /\ Same
    BY <1>1, <1>6, <2>3, Zenon
  <2> QED BY <1>4, <1>12, <2>1, <2>2, <2>3, Zenon DEF query_row
<1>13. CASE call.wait = "event" /\ binlog_event(p)
  <2>1. call' = Idle /\ Counted /\ up' = up
    BY <1>4, <1>13, Zenon DEF binlog_event
  <2>2. /\ unread' \in {"nothing", "answer", "stream"} /\ (unread = "answer" => unread' = "answer")
    BY <1>1, <1>13, Zenon DEF binlog_event, Unread
  <2>3. got' \in Seq([n : Nat, had : BOOLEAN, stripped : BOOLEAN])
    <3>1. got' = got \/ got' = Append(got, [n |-> p.n, had |-> p.extra, stripped |-> Checksummed])
      BY <1>13, Zenon DEF binlog_event
    <3>2. Checksummed \in BOOLEAN
      BY Zenon DEF Checksummed
    <3>3. [n |-> p.n, had |-> p.extra, stripped |-> Checksummed] \in [n : Nat, had : BOOLEAN, stripped : BOOLEAN]
      BY <1>3, <3>2, Zenon
    <3>4. Append(got, [n |-> p.n, had |-> p.extra, stripped |-> Checksummed]) \in Seq([n : Nat, had : BOOLEAN, stripped : BOOLEAN])
      BY <1>1, <3>3, AppendFacts, Zenon
    <3> QED BY <1>1, <3>1, <3>4, Zenon
  <2> QED BY <1>1, <1>2, <2>1, <2>2, <2>3, CallFacts, Zenon DEF Counted
<1> QED BY <1>7, <1>8, <1>9, <1>10, <1>11, <1>12, <1>13, Zenon DEF Handle

\* A method reads the first message that is on its way, both sides being in step.
Reading ==
  /\ Types /\ Linked /\ Good /\ unread # "answer" /\ call.wait # "none"
  /\ down # <<>> /\ down' = Tail(down) /\ UNCHANGED <<fd, link, session, job, seq>>

LEMMA ReadFacts ==
  ASSUME Reading
  PROVE  /\ Chained' /\ Session' /\ down[1] \in Messages /\ Head(down) = down[1]
         /\ Possible(down[1].job) /\ Fits(down[1].p, down[1].job)
         /\ up = <<>> /\ Wants(down[1].job) /\ down[1].seq = next_seq /\ next_seq \in Nat
         /\ Follow(down[1]) = Rest => down' = <<>> /\ job = Rest
         /\ down' # <<>> => down'[1].job = Follow(down[1]) /\ down'[1].seq = (next_seq + 1) % SEQ
         /\ down' = <<>> /\ link = "up" => job = Follow(down[1]) /\ seq = (next_seq + 1) % SEQ
         /\ link = "up" /\ down[1].job.at = "greeting" => session = "login"
         /\ link = "up" /\ down[1].job.at \in InResult => session = "ready"
<1>1. /\ Types /\ Linked /\ Chained /\ Session /\ InStep /\ down # <<>> /\ down' = Tail(down)
      /\ UNCHANGED <<fd, link, session, job, seq>> /\ next_seq \in Nat
  BY Zenon DEF Reading, Good, Types
<1>2. /\ Chained' /\ down' \in Seq(Messages)
      /\ down[1] \in Messages /\ Head(down) = down[1]
      /\ Possible(down[1].job) /\ Fits(down[1].p, down[1].job)
      /\ down' # <<>> => down'[1].job = Follow(down[1]) /\ down'[1].seq = (down[1].seq + 1) % SEQ
      /\ down' = <<>> /\ link = "up" => job = Follow(down[1]) /\ seq = (down[1].seq + 1) % SEQ
      /\ \A k \in 1..Len(down') : k + 1 \in 1..Len(down) /\ down'[k] = down[k + 1]
  BY <1>1, ReadChained, Zenon
<1>3. up = <<>> /\ Wants(down[1].job) /\ down[1].seq = next_seq
  BY <1>1, Zenon DEF InStep
<1>4. Session'
  BY <1>1, <1>2, Zenon DEF Session
<1>5. Follow(down[1]) = Rest => down' = <<>> /\ job = Rest
  <2>1. Follow(down[1]) = Rest => down' = <<>>
    <3> SUFFICES ASSUME Follow(down[1]) = Rest, down' # <<>> PROVE FALSE
      BY Zenon
    <3>1. 1 \in 1..Len(down')
      BY <1>2, EmptyFact
    <3>2. Fits(down'[1].p, down'[1].job)
      BY <1>2, <3>1, Zenon DEF Chained
    <3> QED BY <1>2, <3>2, RestFacts, Zenon DEF Fits
  <2> QED BY <1>1, <1>2, <2>1, Zenon DEF Linked
<1>6. 1 \in 1..Len(down)
  BY <1>1, EmptyFact DEF Types
<1> QED BY <1>1, <1>2, <1>3, <1>4, <1>5, <1>6, Zenon DEF Session

\* The method waits for what comes next.
LEMMA GoesOn ==
  ASSUME Reading, Counted, up' = up, Awaiting', \A j : j = Follow(down[1]) => Wants(j)'
  PROVE  InStep'
<1>1. /\ link' = link /\ job' = job /\ seq' = seq /\ up' = <<>> /\ next_seq' = (next_seq + 1) % SEQ
      /\ down' # <<>> => down'[1].job = Follow(down[1]) /\ down'[1].seq = (next_seq + 1) % SEQ
      /\ down' = <<>> /\ link = "up" => job = Follow(down[1]) /\ seq = (next_seq + 1) % SEQ
  BY ReadFacts, Zenon DEF Reading, Counted
<1>2. down' # <<>> => Wants(down[1].job)'
  BY <1>1, Zenon
<1>3. down' = <<>> /\ link' = "up" => Wants(job)'
  BY <1>1, Zenon
<1> QED BY <1>1, <1>2, <1>3, Zenon DEF InStep

\* The method ends with the answer.
LEMMA Stops == ASSUME Reading, Follow(down[1]) = Rest, up' = up, ~Awaiting' PROVE InStep'
  BY ReadFacts, Zenon DEF Reading, InStep

\* Another request follows the answer, unless the connection is lost.
LEMMA AsksAgain ==
  ASSUME Reading, Follow(down[1]) = Rest, Awaiting', NEW r \in Requests,
         link # "up" => up' = up, link = "up" => up' = Append(up, r) /\ Asked(r)'
  PROVE  InStep'
<1>1. down' = <<>> /\ job' = Rest /\ up = <<>> /\ link' = link
  BY ReadFacts, Zenon DEF Reading
<1>2. link = "up" => Len(up') = 1 /\ up'[1] = r
  BY <1>1, AppendFacts
<1>3. link = "up" => Asked(up[1])'
  BY <1>2, Zenon
<1> QED BY <1>1, <1>2, <1>3 DEF InStep

\* Nothing of the answer is kept.
LEMMA EndFacts ==
  ASSUME Reading, NEW how, End(how), how \notin {"returned", "sequence"} \/ call.op \notin {"query", "query_multi"},
         how # "sequence"
  PROVE  Collected' /\ ResultsComplete' /\ outcome'.how # "sequence" /\ call' = Idle /\ call'.wait = "none"
<1>1. call' = Idle /\ call'.wait = "none" /\ call'.op = "none"
  BY CallFacts, Zenon DEF End
<1>2. outcome'.op = call.op /\ outcome'.how = how
  BY Zenon DEF End, Outcome
<1> QED BY <1>1, <1>2, Zenon DEF Collected, ResultsComplete, InResult

\* The login: no query and no stream is affected.
LEMMA EventsStay ==
  ASSUME Reading, UNCHANGED <<got, unread>>, call.wait # "event"
  PROVE  Events' /\ unread = "nothing" /\ unread' = "nothing"
  BY Zenon DEF Reading, Good, Events, Types

LEMMA GreetingStep == ASSUME Reading, call.wait = "greeting", initial_handshake(down[1].p) PROVE Good'
<1> DEFINE p == down[1].p
<1>1. UNCHANGED <<got, unread>> /\ Events' /\ unread' = "nothing"
  BY EventsStay, Zenon DEF initial_handshake
<1>2. Chained' /\ Session' /\ down[1].job.at = "greeting"
  BY ReadFacts, Zenon DEF Wants
<1>3. Follow(down[1]) = Rest
  BY <1>2, Zenon DEF Follow, InResult
<1>4. CASE End("unexpected") /\ UNCHANGED up
  <2>1. Collected' /\ ResultsComplete' /\ outcome'.how # "sequence" /\ call'.wait = "none"
    BY <1>4, EndFacts, Zenon
  <2>2. ~Awaiting'
    BY <1>1, <2>1, Zenon DEF Awaiting
  <2> QED BY <1>1, <1>2, <1>3, <1>4, <2>1, <2>2, Stops, Zenon DEF Good
<1>5. CASE write_command("login", (next_seq + 1) % SEQ, Waiting("connect", "auth"))
  <2> DEFINE w == Waiting("connect", "auth")
             n == (next_seq + 1) % SEQ
  <2>1. w \in Calls /\ w.wait = "auth" /\ w.op = "connect" /\ w.script = <<>> /\ Idle.wait = "none" /\ Idle.op = "none"
    BY CallFacts
  <2>2. n \in Nat
    BY ReadFacts, CountFact, Zenon
  <2>3. write_command("login", n, w)
    BY <1>5, Zenon
  <2> HIDE DEF w, n
  <2>4. outcome'.how \in {"none", "lost"}
    BY <2>3 DEF write_command, Nothing, Refuse, Outcome
  <2>5. ResultsComplete' /\ outcome'.how # "sequence"
    BY <2>4, Zenon DEF ResultsComplete
  <2>6. Collected'
    BY <2>1, <2>3, Zenon DEF Collected, write_command, InResult
  <2>7. InStep'
    <3>1. CASE call' = Idle /\ up' = up
      <4>1. ~Awaiting'
        BY <1>1, <2>1, <3>1, Zenon DEF Awaiting
      <4> QED BY <1>3, <3>1, <4>1, Stops, Zenon
    <3>2. CASE Put("login", n, w.script) /\ call' = w
      <4>1. PICK r \in Requests : r = [op |-> "login", seq |-> n, script |-> w.script] /\ r.op = "login" /\ r.seq = n
        <5>1. [op |-> "login", seq |-> n, script |-> w.script] \in Requests
          BY <2>1, <2>2 DEF Requests
        <5> QED BY <5>1, Zenon
      <4>2. up' = IF link = "up" THEN Append(up, r) ELSE up
        BY <3>2, <4>1, Zenon DEF Put
      <4>3. Awaiting'
        BY <2>1, <3>2, Zenon DEF Awaiting
      <4>4. link = "up" => session' = "login"
        BY <1>2, ReadFacts, Zenon DEF Reading
      <4>5. link = "up" => Asked(r)'
        BY <2>1, <2>3, <3>2, <4>1, <4>4, Zenon DEF Asked, write_command
      <4> QED BY <1>3, <4>1, <4>2, <4>3, <4>5, AsksAgain, Zenon
    <3> QED BY <2>3, <3>1, <3>2, Zenon DEF write_command
  <2> QED BY <1>1, <1>2, <2>5, <2>6, <2>7, Zenon DEF Good
<1> QED BY <1>4, <1>5, Zenon DEF initial_handshake

LEMMA AuthStep == ASSUME Reading, call.wait = "auth", auth_response(down[1].p) PROVE Good'
<1> DEFINE p == down[1].p
<1>1. UNCHANGED <<up, got, unread>> /\ Counted /\ Events' /\ unread' = "nothing"
  BY EventsStay, Zenon DEF auth_response, Same
<1>2. Chained' /\ Session' /\ down[1].job.at \in {"auth", "fast"} /\ Fits(down[1].p, down[1].job)
  BY ReadFacts, Zenon DEF Wants
<1>3. CASE p.first = "AUTH" /\ p.n = 3
  <2>1. UNCHANGED <<call, outcome>>
    BY <1>3, Zenon DEF auth_response
  <2>2. Follow(down[1]) = Do("fast") /\ Do("fast").at = "fast"
    BY <1>2, <1>3, DoFacts, Zenon DEF Follow, Fits, InResult
  <2>3. Awaiting' /\ (\A j : j = Follow(down[1]) => Wants(j)')
    BY <1>1, <2>1, <2>2, Zenon DEF Awaiting, Wants, InResult
  <2>4. InStep'
    BY <1>1, <2>3, GoesOn, Zenon
  <2>5. Collected' /\ ResultsComplete' /\ outcome'.how # "sequence"
    BY <1>1, <2>1, Zenon DEF Collected, ResultsComplete, Reading, Good
  <2> QED BY <1>1, <1>2, <2>4, <2>5, Zenon DEF Good
<1>4. CASE ~(p.first = "AUTH" /\ p.n = 3)
  <2>1. Follow(down[1]) = Rest
    BY <1>2, <1>4, Zenon DEF Follow, InResult
  <2>2. PICK how \in {"returned", "refused", "unexpected"} : End(how)
    BY <1>4, Zenon DEF auth_response
  <2>3. call.op \notin {"query", "query_multi"}
    BY Zenon DEF Reading, Good, Collected, InResult
  <2>4. Collected' /\ ResultsComplete' /\ outcome'.how # "sequence" /\ call'.wait = "none"
    BY <2>2, <2>3, EndFacts, Zenon
  <2>5. ~Awaiting'
    BY <1>1, <2>4, Zenon DEF Awaiting
  <2> QED BY <1>1, <1>2, <2>1, <2>4, <2>5, Stops, Zenon DEF Good
<1> QED BY <1>3, <1>4, Zenon

LEMMA OkStep == ASSUME Reading, call.wait = "ok", expect_ok(down[1].p) PROVE Good'
<1>1. UNCHANGED <<up, got, unread>> /\ Events' /\ unread' = "nothing"
  BY EventsStay, Zenon DEF expect_ok, Same
<1>2. Chained' /\ Session' /\ down[1].job.at \in {"ok", "refuse"}
  BY ReadFacts, Zenon DEF Wants
<1>3. Follow(down[1]) = Rest
  BY <1>2, Zenon DEF Follow, InResult
<1>4. PICK how \in {"returned", "refused", "unexpected"} : End(how)
  BY Zenon DEF expect_ok, parse_error_body
<1>5. call.op \notin {"query", "query_multi"}
  BY Zenon DEF Reading, Good, Collected, InResult
<1>6. Collected' /\ ResultsComplete' /\ outcome'.how # "sequence" /\ call'.wait = "none"
  BY <1>4, <1>5, EndFacts, Zenon
<1>7. ~Awaiting'
  BY <1>1, <1>6, Zenon DEF Awaiting
<1> QED BY <1>1, <1>2, <1>3, <1>6, <1>7, Stops, Zenon DEF Good

\* A query gives up at the end of its answer.
LEMMA QueryEnds ==
  ASSUME Reading, call.wait \in InResult, Follow(down[1]) = Rest, NEW how \in {"refused", "unexpected"}, End(how), Same
  PROVE  Good'
<1>1. UNCHANGED <<up, got, unread>> /\ Events' /\ unread' = "nothing"
  BY EventsStay, Zenon DEF Same, InResult
<1>2. Collected' /\ ResultsComplete' /\ outcome'.how # "sequence" /\ call'.wait = "none"
  BY EndFacts, Zenon
<1>3. ~Awaiting'
  BY <1>1, <1>2, Zenon DEF Awaiting
<1> QED BY <1>1, <1>2, <1>3, ReadFacts, Stops, Zenon DEF Good

\* A query goes on with the same result.
LEMMA QueryGoesOn ==
  ASSUME Reading, call.wait \in InResult, NEW c \in Calls, Go(c), c.wait \in InResult,
         c.op = call.op, c.ret = call.ret, c.script = call.script,
         \A j : j = Follow(down[1]) =>
           /\ j.at = c.wait /\ j.i = Len(c.ret) + 1 /\ j.script = c.script
           /\ c.wait = "column" => c.columns = Columns - j.rows /\ c.rows = 0
           /\ c.wait = "row" => c.rows = j.rows
  PROVE  Good'
<1>1. UNCHANGED <<up, got, unread, outcome>> /\ Counted /\ Events' /\ unread' = "nothing" /\ call' = c
  BY EventsStay, Zenon DEF Same, InResult, Go
<1>2. Collected' /\ ResultsComplete' /\ outcome'.how # "sequence"
  BY <1>1, Zenon DEF Reading, Good, Collected, ResultsComplete
<1>3. Awaiting'
  BY <1>1, Zenon DEF Awaiting, InResult
<1>4. \A j : j = Follow(down[1]) => Wants(j)'
  BY <1>1, Zenon DEF Wants, InResult
<1> QED BY <1>1, <1>2, <1>3, <1>4, ReadFacts, GoesOn, Zenon DEF Good

\* A result is complete: it is the one of the statement, and the query goes on
\* with the next one, or has them all.
LEMMA DoneStep ==
  ASSUME Reading, call.wait \in InResult, NEW j, j = down[1].job, j.at \in InResult,
         NEW st \in Results, st = Given(Statement(j)), NEW more \in BOOLEAN, more <=> More(j), NEW left \in BOOLEAN,
         Statement(j).kind \notin {"err", "killed"},
         Follow(down[1]) = IF More(j) THEN Job("result", j.i + 1, 0, j.script) ELSE Rest,
         ResultDone(st, more, left)
  PROVE  Good'
<1>1. /\ call \in Calls /\ call.ret \in Seq(Results) /\ call.script \in Seq(Results)
      /\ Len(call.ret) < Len(call.script) /\ call.op \in {"query", "query_multi", "read_binlogs"}
      /\ \A k \in 1..Len(call.ret) : call.ret[k] = Given(call.script[k])
      /\ unread = "nothing" /\ Len(call.ret) \in Nat /\ Len(call.script) \in Nat
  <2>1. call \in Calls /\ Collected
    BY Zenon DEF Reading, Good, Types
  <2>2. call.ret \in Seq(Results) /\ call.script \in Seq(Results)
    BY <2>1, Zenon DEF Calls
  <2>3. unread = "nothing"
    BY Zenon DEF Reading, Good, Events, Types, InResult
  <2> QED BY <2>1, <2>2, <2>3, EmptyFact, Zenon DEF Collected
<1>2. j.i = Len(call.ret) + 1 /\ j.script = call.script /\ Chained' /\ Session'
  BY ReadFacts, Zenon DEF Wants, InResult
<1>3. More(j) <=> Len(call.ret) + 1 < Len(call.script)
  BY <1>2, Zenon DEF More
<1> DEFINE ret == Append(call.ret, st)
<1>4. /\ ret \in Seq(Results) /\ Len(ret) = Len(call.ret) + 1
      /\ \A k \in 1..Len(ret) : ret[k] = Given(call.script[k])
  <2>1. /\ ret \in Seq(Results) /\ Len(ret) = Len(call.ret) + 1 /\ ret[Len(call.ret) + 1] = st
        /\ \A k \in 1..Len(call.ret) : ret[k] = call.ret[k]
    BY <1>1, AppendFacts
  <2>2. st = Given(call.script[Len(call.ret) + 1])
    BY <1>2, Zenon DEF Statement
  <2> QED BY <1>1, <2>1, <2>2
<1>5. CASE more
  <2> DEFINE c == [call EXCEPT !.wait = "result", !.ret = Append(@, st), !.left = left]
  <2>1. /\ Go(c) /\ c.wait = "result" /\ c.op = call.op /\ c.ret = ret /\ c.script = call.script
    BY <1>1, <1>5, Zenon DEF ResultDone, Calls
  <2> HIDE DEF c, ret
  <2>2. UNCHANGED <<up, got, unread, outcome>> /\ Counted /\ Events' /\ unread' = "nothing" /\ call' = c
    BY <2>1, EventsStay, Zenon DEF Same, InResult, Go
  <2>3. Collected'
    BY <1>1, <1>3, <1>4, <1>5, <2>1, <2>2, Zenon DEF Collected, InResult
  <2>4. ResultsComplete' /\ outcome'.how # "sequence"
    BY <2>2, Zenon DEF Reading, Good, ResultsComplete
  <2>5. Awaiting'
    BY <2>1, <2>2, Zenon DEF Awaiting
  <2>6. /\ Follow(down[1]).at = "result" /\ Follow(down[1]).i = Len(ret) + 1 /\ Follow(down[1]).script = call.script
    BY <1>1, <1>2, <1>4, <1>5 DEF Job
  <2>7. ASSUME NEW f, f = Follow(down[1]) PROVE Wants(f)'
    BY <2>1, <2>2, <2>6, <2>7, Zenon DEF Wants, InResult
  <2> QED BY <1>2, <2>2, <2>3, <2>4, <2>5, <2>7, GoesOn, Zenon DEF Good
<1>6. CASE ~more
  <2>1. QueryDone(ret) /\ Follow(down[1]) = Rest /\ Len(ret) = Len(call.script)
    BY <1>1, <1>3, <1>4, <1>6 DEF ResultDone
  <2> HIDE DEF ret
  <2>2. CASE call.op = "read_binlogs" /\ End("returned") /\ Put("dump", 0, <<>>) /\ next_seq' = 1 % SEQ
             /\ binlog_read_state' = "READING_FIRST_EVENT" /\ got' = <<>> /\ Unread("stream")
    <3>1. Collected' /\ ResultsComplete' /\ outcome'.how # "sequence" /\ call'.wait = "none"
      BY <2>2, EndFacts, Zenon
    <3>2. unread' = "stream" /\ Len(<<>>) = 0
      BY <1>1, <2>2, Zenon DEF Unread
    <3>3. Events'
      BY <2>2, <3>1, <3>2 DEF Events
    <3> DEFINE r == [op |-> "dump", seq |-> 0, script |-> <<>>]
    <3>4. r \in Requests /\ r.op = "dump" /\ r.seq = 0
      BY DEF Requests
    <3>5. up' = IF link = "up" THEN Append(up, r) ELSE up
      BY <2>2, Zenon DEF Put
    <3> HIDE DEF r
    <3>6. link = "up" => session' = "ready"
      BY ReadFacts, Zenon DEF Reading
    <3>7. Awaiting' /\ (link = "up" => Asked(r)')
      BY <2>2, <3>2, <3>4, <3>6 DEF Awaiting, Asked
    <3>8. InStep'
      BY <2>1, <3>4, <3>5, <3>7, AsksAgain, Zenon
    <3> QED BY <1>2, <3>1, <3>3, <3>8, Zenon DEF Good
  <2>3. CASE call.op = "read_binlogs" /\ End("lost") /\ Same
    <3>1. UNCHANGED <<up, got, unread>> /\ Events' /\ unread' = "nothing"
      BY <2>3, EventsStay, Zenon DEF Same, InResult
    <3>2. Collected' /\ ResultsComplete' /\ outcome'.how # "sequence" /\ call'.wait = "none"
      BY <2>3, EndFacts, Zenon
    <3>3. ~Awaiting'
      BY <3>1, <3>2, Zenon DEF Awaiting
    <3> QED BY <1>2, <2>1, <3>1, <3>2, <3>3, Stops, Zenon DEF Good
  <2>4. ASSUME NEW how \in {"multiple", "returned"}, outcome' = Outcome(call.op, how, ret, call.script), call' = Idle, Same
        PROVE  Good'
    <3>1. UNCHANGED <<up, got, unread>> /\ Events' /\ unread' = "nothing"
      BY <2>4, EventsStay, Zenon DEF Same, InResult
    <3>2. call'.wait = "none" /\ call'.op = "none"
      BY <2>4, CallFacts, Zenon
    <3>3. Collected' /\ ~Awaiting'
      BY <3>1, <3>2, Zenon DEF Collected, Awaiting, InResult
    <3>4. outcome'.how = how /\ outcome'.ret = ret /\ outcome'.script = call.script
      BY <2>4, Zenon DEF Outcome
    <3>5. ret = [i \in DOMAIN call.script |-> Given(call.script[i])]
      <4>1. DOMAIN call.script = 1..Len(call.script) /\ ret = [i \in 1..Len(ret) |-> ret[i]]
        BY <1>1, <1>4
      <4> QED BY <1>4, <2>1, <4>1, Zenon
    <3>6. ResultsComplete' /\ outcome'.how # "sequence"
      BY <3>4, <3>5, ZenonT(60) DEF ResultsComplete, Given
    <3> QED BY <1>2, <2>1, <3>1, <3>3, <3>6, Stops, Zenon DEF Good
  <2> QED BY <2>1, <2>2, <2>3, <2>4, Zenon DEF QueryDone
<1> QED BY <1>5, <1>6, Zenon

\* What the first message of a query is about.
LEMMA AboutFacts ==
  ASSUME Reading, call.wait \in InResult
  PROVE  /\ call \in Calls /\ call.columns \in Int /\ call.rows \in Nat /\ Len(call.ret) \in Nat
         /\ down[1].job \in Jobs /\ down[1].p \in Packets /\ down[1].job.rows \in Nat
         /\ down[1].job.at \in InResult =>
              /\ down[1].p = ResultPacket(down[1].job) /\ Follow(down[1]) = AfterResult(down[1].job)
              /\ down[1].job.i = Len(call.ret) + 1 /\ down[1].job.script = call.script
              /\ Possible(down[1].job) /\ Statement(down[1].job) \in Results
              /\ Statement(down[1].job).kind \in {"ok", "info", "err", "rows", "killed"}
              /\ Statement(down[1].job).rows \in Nat
         /\ down[1].job.at = "refuse" => down[1].p.first = "ERR" /\ Follow(down[1]) = Rest
<1>1. call \in Calls /\ down[1] \in Messages
  BY ReadFacts, Zenon DEF Reading, Types
<1>2. /\ call.columns \in Int /\ call.rows \in Nat /\ call.ret \in Seq(Results)
      /\ down[1].job \in Jobs /\ down[1].p \in Packets
  BY <1>1, Zenon DEF Calls, Messages
<1>3. Len(call.ret) \in Nat /\ down[1].job.rows \in Nat /\ down[1].job.script \in Seq(Results)
  BY <1>2 DEF Jobs
<1>4. /\ Possible(down[1].job) /\ Fits(down[1].p, down[1].job) /\ Wants(down[1].job)
  BY ReadFacts, Zenon
<1>5. down[1].job.at \in InResult => Statement(down[1].job) \in Results
  BY <1>3, <1>4, EmptyFact, Zenon DEF Possible, Statement
<1>6. down[1].job.at \in InResult =>
        /\ Statement(down[1].job).kind \in {"ok", "info", "err", "rows", "killed"} /\ Statement(down[1].job).rows \in Nat
  BY <1>5, Zenon DEF Results
<1>7. down[1].job.at \in InResult =>
        /\ down[1].p = ResultPacket(down[1].job) /\ Follow(down[1]) = AfterResult(down[1].job)
        /\ down[1].job.i = Len(call.ret) + 1 /\ down[1].job.script = call.script
  BY <1>4, Zenon DEF Fits, Follow, Wants, InResult
<1>8. down[1].job.at = "refuse" => down[1].p.first = "ERR" /\ Follow(down[1]) = Rest
  BY <1>4, Zenon DEF Fits, Follow, InResult
<1> QED BY <1>1, <1>2, <1>3, <1>4, <1>5, <1>6, <1>7, <1>8, Zenon

\* Both ends of a result, as the server sends them.
LEMMA MoreFact == ASSUME NEW j PROVE More(j) \in BOOLEAN
  BY Zenon DEF More

LEMMA ResultStep == ASSUME Reading, call.wait = "result", query_result(down[1].p) PROVE Good'
<1> DEFINE j == down[1].job
           p == down[1].p
           st == Statement(j)
<1>1. call.wait \in InResult /\ j.at \in {"result", "refuse"}
  BY ReadFacts, Zenon DEF Wants, InResult
<1>2. /\ call \in Calls /\ j \in Jobs /\ p \in Packets /\ Len(call.ret) \in Nat
      /\ j.at = "refuse" => p.first = "ERR" /\ Follow(down[1]) = Rest
  BY <1>1, AboutFacts, Zenon
<1>3. ASSUME p.first = "ERR", Follow(down[1]) = Rest PROVE Good'
  <2>1. PICK how \in {"refused", "unexpected"} : End(how) /\ Same
    BY <1>3, Zenon DEF query_result, parse_error_body
  <2> QED BY <1>1, <1>3, <2>1, QueryEnds, Zenon
<1>4. CASE j.at = "result"
  <2>1. /\ p = ResultPacket(j) /\ Follow(down[1]) = AfterResult(j) /\ j.i = Len(call.ret) + 1 /\ j.script = call.script
        /\ st \in Results /\ st.kind \in {"ok", "info", "err", "rows", "killed"}
    BY <1>1, <1>4, AboutFacts, Zenon DEF InResult
  <2>2. CASE st.kind = "err"
    <3>1. p.first = "ERR"
      BY <1>4, <2>1, <2>2 DEF ResultPacket, Simple, Packet
    <3>2. Follow(down[1]) = Rest
      BY <1>4, <2>1, <2>2, Zenon DEF AfterResult, More
    <3> QED BY <1>3, <3>1, <3>2, Zenon
  <2>3. CASE st.kind \in {"rows", "killed"}
    <3>1. p.first = "columns" /\ p.n = Columns
      BY <1>4, <2>1, <2>3 DEF ResultPacket, Packet
    <3>2. Follow(down[1]) = Job("column", j.i, 0, j.script)
      BY <1>4, <2>1, <2>3, Zenon DEF AfterResult
    <3> DEFINE c == [call EXCEPT !.wait = "column", !.columns = p.n, !.rows = 0]
    <3>3. Go(c)
      BY <3>1, Zenon DEF query_result
    <3>4. /\ c \in Calls /\ c.wait = "column" /\ c.op = call.op /\ c.ret = call.ret /\ c.script = call.script
          /\ c.columns = Columns /\ c.rows = 0
      <4>1. p.n = Columns /\ Columns \in Int /\ call \in Calls
        BY <1>2, <3>1, ColumnsAssumption
      <4> HIDE DEF p
      <4> QED BY <4>1, Zenon DEF Calls
    <3>5. /\ Follow(down[1]).at = "column" /\ Follow(down[1]).rows = 0
          /\ Follow(down[1]).i = Len(call.ret) + 1 /\ Follow(down[1]).script = call.script
      BY <2>1, <3>2 DEF Job
    <3> HIDE DEF c
    <3>6. Columns = Columns - 0
      BY ColumnsAssumption
    <3> QED BY <1>1, <3>3, <3>4, <3>5, <3>6, QueryGoesOn, Zenon DEF InResult
  <2>4. CASE st.kind \in {"ok", "info"}
    <3>1. p = Packet("OK", More(j), st.kind = "info", 0)
      BY <1>4, <2>1, <2>4, Zenon DEF ResultPacket
    <3>2. More(j) \in BOOLEAN /\ (st.kind = "info") \in BOOLEAN
      BY MoreFact, Zenon
    <3>3. p.first = "OK" /\ p.more = More(j) /\ p.extra = (st.kind = "info")
      <4> DEFINE more == More(j)
                 info == st.kind = "info"
      <4>1. more \in BOOLEAN /\ info \in BOOLEAN /\ p = Packet("OK", more, info, 0)
        BY <3>1, <3>2, Zenon
      <4> HIDE DEF more, info, p
      <4>2. p.first = "OK" /\ p.more = more /\ p.extra = info
        BY <4>1, Zenon DEF Packet
      <4> QED BY <4>2, Zenon DEF more, info
    <3>4. Follow(down[1]) = IF More(j) THEN Job("result", j.i + 1, 0, j.script) ELSE Rest
      BY <1>4, <2>1, <2>4, Zenon DEF AfterResult
    <3>5. ResultDone([kind |-> "ok", rows |-> 0], p.more, p.extra)
      BY <3>3, Zenon DEF query_result
    <3>6. [kind |-> "ok", rows |-> 0] \in Results /\ [kind |-> "ok", rows |-> 0] = Given(st)
      BY <2>4, Zenon DEF Results, Given
    <3>7. p.more \in BOOLEAN /\ p.extra \in BOOLEAN /\ (p.more <=> More(j)) /\ j.at \in InResult /\ st.kind \notin {"err", "killed"}
      BY <1>4, <2>4, <3>2, <3>3, Zenon DEF InResult
    <3> HIDE DEF p, st
    <3>8. Statement(j).kind \notin {"err", "killed"} /\ [kind |-> "ok", rows |-> 0] = Given(Statement(j))
      BY <3>6, <3>7, Zenon DEF st
    <3> HIDE DEF j
    <3> QED BY <1>1, <3>4, <3>5, <3>6, <3>7, <3>8, DoneStep, Zenon DEF j
  <2> QED BY <2>1, <2>2, <2>3, <2>4, Zenon
<1> QED BY <1>1, <1>2, <1>3, <1>4, Zenon

LEMMA ColumnStep == ASSUME Reading, call.wait = "column", query_column(down[1].p) PROVE Good'
<1> DEFINE j == down[1].job
           p == down[1].p
<1>1. call.wait \in InResult /\ j.at = "column" /\ call.columns = Columns - j.rows /\ call.rows = 0
  BY ReadFacts, Zenon DEF Wants, InResult
<1>2. /\ call \in Calls /\ j.rows \in Nat /\ p = ResultPacket(j) /\ Follow(down[1]) = AfterResult(j)
      /\ j.i = Len(call.ret) + 1 /\ j.script = call.script /\ j.rows < Columns /\ call.columns \in Int
  BY <1>1, AboutFacts, Zenon DEF InResult, Possible
<1> DEFINE c == [call EXCEPT !.columns = @ - 1, !.wait = IF call.columns = 1 THEN "row" ELSE @]
<1>3. Go(c)
  BY <1>1, <1>2 DEF query_column, ResultPacket, Simple, Packet
<1>4. /\ c \in Calls /\ c.wait = (IF call.columns = 1 THEN "row" ELSE "column") /\ c.op = call.op /\ c.ret = call.ret
      /\ c.script = call.script /\ c.columns = call.columns - 1 /\ c.rows = 0
  <2>1. call \in Calls /\ call.columns - 1 \in Int /\ (IF call.columns = 1 THEN "row" ELSE call.wait) \in {"column", "row"}
        /\ call.wait = "column" /\ call.rows = 0
    BY <1>1, <1>2
  <2> QED BY <2>1, Zenon DEF Calls
<1> HIDE DEF c
<1>5. CASE call.columns = 1
  <2>1. Follow(down[1]) = Job("row", j.i, 0, j.script)
    BY <1>1, <1>2, <1>5, ColumnsAssumption, SMTT(60) DEF AfterResult
  <2>2. /\ Follow(down[1]).at = "row" /\ Follow(down[1]).rows = 0
        /\ Follow(down[1]).i = Len(call.ret) + 1 /\ Follow(down[1]).script = call.script
    BY <1>2, <2>1 DEF Job
  <2> QED BY <1>1, <1>3, <1>4, <1>5, <2>2, QueryGoesOn, Zenon DEF InResult
<1>6. CASE call.columns # 1
  <2>1. Follow(down[1]) = Job("column", j.i, j.rows + 1, j.script)
    BY <1>1, <1>2, <1>6, ColumnsAssumption DEF AfterResult
  <2>2. /\ Follow(down[1]).at = "column" /\ Follow(down[1]).rows = j.rows + 1
        /\ Follow(down[1]).i = Len(call.ret) + 1 /\ Follow(down[1]).script = call.script
    BY <1>2, <2>1 DEF Job
  <2>3. c.columns = Columns - Follow(down[1]).rows
    BY <1>1, <1>2, <1>4, <2>2, ColumnsAssumption
  <2> QED BY <1>1, <1>3, <1>4, <1>6, <2>2, <2>3, QueryGoesOn, Zenon DEF InResult
<1> QED BY <1>5, <1>6, Zenon

LEMMA RowStep == ASSUME Reading, call.wait = "row", query_row(down[1].p) PROVE Good'
<1> DEFINE j == down[1].job
           p == down[1].p
           st == Statement(j)
<1>1. call.wait \in InResult /\ j.at = "row" /\ call.rows = j.rows
  BY ReadFacts, Zenon DEF Wants, InResult
<1>2. /\ call \in Calls /\ j.rows \in Nat /\ p = ResultPacket(j) /\ Follow(down[1]) = AfterResult(j)
      /\ j.i = Len(call.ret) + 1 /\ j.script = call.script /\ j.rows <= st.rows
      /\ st \in Results /\ st.rows \in Nat /\ st.kind \in {"rows", "killed"}
  BY <1>1, AboutFacts, Zenon DEF InResult, Possible
<1>3. CASE j.rows < st.rows
  <2> DEFINE c == [call EXCEPT !.rows = @ + 1]
  <2>1. Go(c)
    BY <1>1, <1>2, <1>3 DEF query_row, ResultPacket, Simple, Packet
  <2>2. /\ c \in Calls /\ c.wait = "row" /\ c.op = call.op /\ c.ret = call.ret /\ c.script = call.script
        /\ c.rows = j.rows + 1
    <3>1. call \in Calls /\ call.rows + 1 \in Nat /\ call.wait = "row"
      BY <1>1, <1>2
    <3> HIDE DEF j
    <3> QED BY <1>1, <3>1, Zenon DEF Calls
  <2> HIDE DEF c
  <2>3. Follow(down[1]) = Job("row", j.i, j.rows + 1, j.script)
    BY <1>1, <1>2, <1>3, Zenon DEF AfterResult
  <2>4. /\ Follow(down[1]).at = "row" /\ Follow(down[1]).rows = j.rows + 1
        /\ Follow(down[1]).i = Len(call.ret) + 1 /\ Follow(down[1]).script = call.script
    BY <1>2, <2>3 DEF Job
  <2> QED BY <1>1, <2>1, <2>2, <2>4, QueryGoesOn, Zenon DEF InResult
<1>4. CASE ~(j.rows < st.rows) /\ st.kind = "killed"
  <2>1. p.first = "ERR"
    BY <1>1, <1>2, <1>4 DEF ResultPacket, Simple, Packet
  <2>2. End("unexpected") /\ Same
    BY <2>1, Zenon DEF query_row
  <2>3. Follow(down[1]) = Rest
    BY <1>1, <1>2, <1>4, Zenon DEF AfterResult, More
  <2> QED BY <1>1, <2>2, <2>3, QueryEnds, ZenonT(60)
<1>5. CASE ~(j.rows < st.rows) /\ st.kind = "rows"
  <2>1. p = Packet("EOF", More(j), TRUE, 0)
    BY <1>1, <1>2, <1>5, Zenon DEF ResultPacket
  <2>2. More(j) \in BOOLEAN
    BY MoreFact, Zenon
  <2>3. p.first = "EOF" /\ p.more = More(j)
    <3> DEFINE more == More(j)
    <3>1. more \in BOOLEAN /\ p = Packet("EOF", more, TRUE, 0)
      BY <2>1, <2>2, Zenon
    <3> HIDE DEF more, p
    <3>2. p.first = "EOF" /\ p.more = more
      BY <3>1, Zenon DEF Packet
    <3> QED BY <3>2, Zenon DEF more
  <2>4. ResultDone([kind |-> "rows", rows |-> call.rows], p.more, FALSE)
    BY <2>3, Zenon DEF query_row
  <2>5. Follow(down[1]) = IF More(j) THEN Job("result", j.i + 1, 0, j.script) ELSE Rest
    BY <1>1, <1>2, <1>5, Zenon DEF AfterResult
  <2>6. call.rows = st.rows
    BY <1>1, <1>2, <1>5
  <2>7. [kind |-> "rows", rows |-> call.rows] \in Results /\ [kind |-> "rows", rows |-> call.rows] = Given(st)
    <3> HIDE DEF st
    <3>1. st = [kind |-> st.kind, rows |-> st.rows]
      BY <1>2, Zenon DEF Results
    <3> QED BY <1>2, <1>5, <2>6, <3>1, Zenon DEF Results, Given
  <2>8. p.more \in BOOLEAN /\ FALSE \in BOOLEAN /\ (p.more <=> More(j)) /\ j.at \in InResult
    BY <1>1, <2>2, <2>3, Zenon DEF InResult
  <2>9. Statement(j).kind \notin {"err", "killed"} /\ [kind |-> "rows", rows |-> call.rows] = Given(Statement(j))
    BY <1>5, <2>7, Zenon
  <2> HIDE DEF p, st, j
  <2> QED BY <1>1, <2>4, <2>5, <2>7, <2>8, <2>9, DoneStep, Zenon DEF j
<1> QED BY <1>2, <1>3, <1>4, <1>5, Zenon

LEMMA EventStep == ASSUME Reading, call.wait = "event", binlog_event(down[1].p) PROVE Good'
<1> DEFINE j == down[1].job
           p == down[1].p
<1>1. up' = up /\ Counted /\ Chained' /\ Session' /\ down[1] \in Messages /\ Types /\ Events
  BY ReadFacts, Zenon DEF binlog_event, Reading, Good
<1>2. unread = "stream"
  BY Zenon DEF Reading, Good, InStep, Awaiting
<1>3. j.at = "event" /\ j.rows = Len(got) /\ Fits(p, j)
  BY <1>2, ReadFacts, Zenon DEF Wants
<1>4. /\ got \in Seq([n : Nat, had : BOOLEAN, stripped : BOOLEAN]) /\ j \in Jobs /\ p \in Packets
      /\ Len(got) \in Nat /\ (got = <<>> <=> Len(got) = 0)
  <2>1. got \in Seq([n : Nat, had : BOOLEAN, stripped : BOOLEAN]) /\ j \in Jobs /\ p \in Packets
    BY <1>1, Zenon DEF Types, Messages
  <2> QED BY <2>1, EmptyFact, Zenon
<1>5. PICK how \in {"end", "returned", "refused"} : End(how)
  BY Zenon DEF binlog_event
<1>6. Collected' /\ ResultsComplete' /\ outcome'.how # "sequence" /\ call'.wait = "none"
  <2>1. call.op \notin {"query", "query_multi"}
    BY Zenon DEF Reading, Good, Collected, InResult
  <2> QED BY <1>5, <2>1, EndFacts, Zenon
<1>7. CASE p.first # "OK"
  <2>1. Follow(down[1]) = Rest
    BY <1>3, <1>7, Zenon DEF Follow, InResult
  <2>2. unread' = "nothing" /\ got' = got
    BY <1>2, <1>7, Zenon DEF binlog_event, Unread
  <2>3. ~Awaiting' /\ Events'
    BY <1>1, <1>6, <2>2, Zenon DEF Awaiting, Events
  <2> QED BY <1>1, <1>6, <2>1, <2>3, Stops, Zenon DEF Good
<1>8. CASE p.first = "OK"
  <2> DEFINE e == [n |-> p.n, had |-> p.extra, stripped |-> Checksummed]
  <2>1. unread' = "stream" /\ got' = Append(got, e) /\ binlog_read_state' = "READING_EVENT"
    BY <1>2, <1>8, Zenon DEF binlog_event, Unread
  <2>2. p = Packet("OK", FALSE, j.rows > 0, j.rows + 1)
    BY <1>3, <1>8, Zenon DEF Fits, InResult
  <2>3. p.n = Len(got) + 1 /\ (p.extra <=> Len(got) > 0) /\ p.extra \in BOOLEAN
    <3> DEFINE has == j.rows > 0
    <3>1. has \in BOOLEAN /\ p = Packet("OK", FALSE, has, j.rows + 1)
      BY <2>2
    <3> HIDE DEF has
    <3>2. p.extra = has /\ p.n = j.rows + 1
      BY <3>1 DEF Packet
    <3> QED BY <1>3, <3>1, <3>2, Zenon DEF has
  <2>4. Checksummed \in BOOLEAN /\ (Checksummed <=> Len(got) > 0)
    <3>1. Checksummed \in BOOLEAN
      BY Zenon DEF Checksummed
    <3> QED BY <1>1, <1>2, <1>4, <3>1 DEF Events, Checksummed
  <2> HIDE DEF p
  <2>5. /\ e \in [n : Nat, had : BOOLEAN, stripped : BOOLEAN] /\ e.n = Len(got) + 1 /\ e.stripped = e.had
    <3>1. p.n \in Nat /\ p.extra \in BOOLEAN /\ Checksummed \in BOOLEAN /\ (Checksummed <=> p.extra)
      BY <1>4, <2>3, <2>4
    <3>2. Checksummed = p.extra
      BY <3>1, Zenon
    <3> QED BY <2>3, <3>1, <3>2, Zenon
  <2> HIDE DEF e
  <2>6. /\ Len(got') = Len(got) + 1 /\ got'[Len(got) + 1] = e /\ got' # <<>>
        /\ \A k \in 1..Len(got) : got'[k] = got[k]
    BY <1>4, <2>1, <2>5, AppendFacts
  <2>7. \A k \in 1..Len(got') : got'[k].n = k /\ got'[k].stripped = got'[k].had
    <3> SUFFICES ASSUME NEW k \in 1..Len(got') PROVE got'[k].n = k /\ got'[k].stripped = got'[k].had
      BY Zenon
    <3>1. CASE k \in 1..Len(got)
      BY <1>1, <2>6, <3>1, Zenon DEF Events
    <3>2. CASE k = Len(got) + 1
      BY <2>5, <2>6, <3>2, Zenon
    <3> QED BY <1>4, <2>6, <3>1, <3>2
  <2>8. Events' /\ Awaiting'
    BY <1>6, <2>1, <2>6, <2>7, Zenon DEF Events, Awaiting
  <2>9. Follow(down[1]) = [j EXCEPT !.rows = @ + 1]
    BY <1>3, <1>8, Zenon DEF Follow, InResult, p
  <2>10. Follow(down[1]).at = "event" /\ Follow(down[1]).rows = Len(got')
    <3> HIDE DEF j
    <3> QED BY <1>3, <1>4, <2>6, <2>9, Zenon DEF Jobs
  <2>11. ASSUME NEW f, f = Follow(down[1]) PROVE Wants(f)'
    BY <1>6, <2>10, <2>11, Zenon DEF Wants, InResult
  <2> QED BY <1>1, <1>6, <2>8, <2>11, GoesOn, Zenon DEF Good
<1> QED BY <1>7, <1>8, Zenon

LEMMA read_commandStep == ASSUME QInv, read_command PROVE QInv'
<1>1. /\ Types /\ Linked /\ (unread # "answer" => Good) /\ call # Idle /\ call.wait # "none" /\ fd
      /\ UNCHANGED <<fd, link, session, job, seq>>
  BY Zenon DEF QInv, read_command, server, Types, Linked
<1>2. Idle \in Calls /\ Idle.wait = "none"
  BY CallFacts, Zenon
<1>3. CASE End("not empty") /\ unread' = "answer" /\ Untouched /\ UNCHANGED down
  <2>1. Types' /\ Linked'
    BY <1>1, <1>2, <1>3, Zenon DEF Types, Linked, Untouched, End
  <2> QED BY <1>3, <2>1, Zenon DEF QInv
<1>4. CASE down = <<>> /\ link = "lost" /\ End("lost") /\ Untouched /\ UNCHANGED <<down, unread>>
  <2>1. Types' /\ Linked'
    BY <1>1, <1>2, <1>4, Zenon DEF Types, Linked, Untouched, End
  <2>2. ASSUME unread # "answer" PROVE Good'
    <3>1. Good
      BY <1>1, <2>2, Zenon
    <3>2. Chained' /\ Session' /\ Events'
      BY <1>1, <1>2, <1>4, <3>1, Zenon DEF Good, Chained, Session, Events, Untouched, End
    <3>3. up' = <<>> /\ down' = <<>> /\ link' # "up" /\ job' = Rest
      BY <1>1, <1>4, <3>1, Zenon DEF Good, InStep, Linked, Untouched
    <3>4. InStep'
      BY <3>3, Zenon DEF InStep
    <3>5. call' = Idle /\ outcome'.how = "lost"
      BY <1>4, Zenon DEF End, Outcome
    <3>6. Collected' /\ ResultsComplete' /\ outcome'.how # "sequence"
      BY <3>5, CallFacts, Zenon DEF Collected, ResultsComplete, InResult
    <3> QED BY <3>2, <3>4, <3>6, Zenon DEF Good
  <2> QED BY <1>4, <2>1, <2>2, Zenon DEF QInv
<1>5. CASE /\ down # <<>> /\ down' = Tail(down)
           /\ IF Head(down).seq # next_seq THEN End("sequence") /\ Untouched /\ UNCHANGED unread
              ELSE Handle(Head(down).p)
  <2>1. down' \in Seq(Messages) /\ Head(down) \in Messages /\ Head(down) = down[1] /\ down[1].p \in Packets
    <3>1. down' \in Seq(Messages) /\ Head(down) = down[1] /\ down[1] \in Messages
      BY <1>1, <1>5, TailFacts, Zenon DEF Types
    <3> QED BY <3>1, Zenon DEF Messages
  <2>2. CASE unread # "answer"
    <3>1. Reading
      BY <1>1, <1>5, <2>2, Zenon DEF Reading
    <3>2. Handle(down[1].p)
      BY <1>5, <2>1, <3>1, ReadFacts, Zenon
    <3>3. Good'
      BY <3>1, <3>2, GreetingStep, AuthStep, OkStep, ResultStep, ColumnStep, RowStep, EventStep, Zenon DEF Handle
    <3>4. /\ next_seq' \in Nat /\ call' \in Calls /\ (call'.wait = "none" => call' = Idle)
          /\ up' \in Seq(Requests) /\ got' \in Seq([n : Nat, had : BOOLEAN, stripped : BOOLEAN])
          /\ unread' \in {"nothing", "answer", "stream"}
      BY <1>1, <2>1, <3>2, HandleTypes, Zenon
    <3>5. Types' /\ Linked'
      BY <1>1, <2>1, <3>4, Zenon DEF Types, Linked
    <3> QED BY <3>3, <3>5, Zenon DEF QInv
  <2>3. CASE unread = "answer"
    <3>1. /\ next_seq' \in Nat /\ call' \in Calls /\ (call'.wait = "none" => call' = Idle)
          /\ up' \in Seq(Requests) /\ got' \in Seq([n : Nat, had : BOOLEAN, stripped : BOOLEAN])
          /\ unread' = "answer"
      <4>1. CASE Handle(down[1].p)
        BY <1>1, <2>1, <2>3, <4>1, HandleTypes, Zenon
      <4>2. CASE End("sequence") /\ Untouched /\ UNCHANGED unread
        BY <1>1, <1>2, <2>3, <4>2, Zenon DEF Types, Untouched, End
      <4> QED BY <1>5, <2>1, <4>1, <4>2, Zenon
    <3>2. Types' /\ Linked'
      BY <1>1, <2>1, <3>1, Zenon DEF Types, Linked
    <3> QED BY <3>1, <3>2, Zenon DEF QInv
  <2> QED BY <2>2, <2>3, Zenon
<1> QED BY <1>3, <1>4, <1>5, Zenon DEF read_command

-----------------------------------------------------------------------------
(* The theorems *)

LEMMA QInvInit == ASSUME Init PROVE QInv
<1>1. /\ <<>> \in Seq(Requests) /\ <<>> \in Seq(Messages) /\ <<>> \in Seq([n : Nat, had : BOOLEAN, stripped : BOOLEAN])
      /\ Len(<<>>) = 0
  OBVIOUS
<1>2. call.wait = "none" /\ call.op = "none" /\ call \in Calls
  BY CallFacts, Zenon DEF Init
<1>3. Types /\ Linked
  BY <1>1, <1>2, RestFacts, Zenon DEF Init, Types, Linked
<1>4. Chained /\ Session /\ Collected /\ Events /\ InStep
  BY <1>1, <1>2 DEF Init, Chained, Session, Collected, Events, InStep, InResult, Awaiting
<1>5. outcome.how = "none"
  BY Zenon DEF Init, Nothing, Outcome
<1>6. ResultsComplete /\ outcome.how # "sequence"
  BY <1>5, Zenon DEF ResultsComplete
<1> QED BY <1>3, <1>4, <1>6, Zenon DEF QInv, Good

LEMMA QInvStep == ASSUME QInv, [Next]_vars PROVE QInv'
<1>1. CASE Next
  BY Zenon, <1>1, connectStep, quitStep, change_dbStep, QueriesStep, get_binlog_eventStep, read_commandStep,
     ServeStep, SendAnswerStep, SendEventStep, LoseStep DEF Next
<1>2. CASE UNCHANGED vars
  <2>1. /\ UNCHANGED <<fd, next_seq, binlog_read_state, call, link, session, job, seq, up, down, got, unread>> /\ outcome' = outcome
    BY <1>2, Zenon DEF vars, client, server, history
  <2>2. Types' /\ Linked'
    BY <2>1, Zenon DEF QInv, Types, Linked
  <2>3. ASSUME unread # "answer" PROVE Good'
    <3>1. Good
      BY <2>3, ZenonT(60) DEF QInv
    <3>2. Chained' /\ Session' /\ Collected' /\ Events' /\ ResultsComplete' /\ outcome'.how # "sequence"
      BY <2>1, <3>1 DEF Good, Chained, Session, Collected, Events, ResultsComplete
    <3>3. InStep'
      BY <2>1, <3>1, Zenon DEF Good, InStep, Awaiting, Wants, Asked
    <3> QED BY <3>2, <3>3, Zenon DEF Good
  <2> QED BY <2>1, <2>2, <2>3, Zenon DEF QInv
<1> QED BY <1>1, <1>2, Zenon

LEMMA QInvAlways == Spec => []QInv
<1>1. Init => QInv
  BY QInvInit, Zenon
<1>2. QInv /\ [Next]_vars => QInv'
  BY QInvStep, Zenon
<1> QED BY <1>1, <1>2, PTL DEF Spec

\* A query that returns has every result set of its statements with all its
\* rows, in their order, for any number of statements, columns and rows and any
\* size of the sequence numbers (query_multi).
THEOREM ResultsAreComplete == Spec => []ResultsComplete
<1>1. QInv => ResultsComplete
  BY Zenon DEF QInv, Good, ResultsComplete
<1> QED BY <1>1, QInvAlways, PTL

\* A method that has ended leaves nothing on the way for the next one, unless a
\* non-empty buffer made it throw in the middle of an answer, or the method has
\* opened a binlog stream (read_command, query_multi, expect_ok).
THEOREM AnswersAreRead == Spec => []StreamInSync
<1>1. QInv => StreamInSync
  BY IdleFacts, Zenon DEF StreamInSync
<1> QED BY <1>1, QInvAlways, PTL

\* No command has another sequence number than the one that the client expects,
\* however often the numbers wrap around (read_command, write_command).
THEOREM SequenceKept == Spec => []InSequence
<1>1. QInv => InSequence
  BY Zenon DEF QInv, Good, InSequence
<1> QED BY <1>1, QInvAlways, PTL

\* The events of a binlog stream are returned each once and in order, without
\* the checksum exactly where they had one, for streams of any length
\* (get_binlog_event).
THEOREM EventsAreFaithful == Spec => []EventsFaithful
<1>1. QInv => EventsFaithful
  <2> SUFFICES ASSUME QInv, unread # "answer", NEW i \in DOMAIN got PROVE got[i].n = i /\ got[i].stripped = got[i].had
    BY Zenon DEF EventsFaithful
  <2>1. got \in Seq([n : Nat, had : BOOLEAN, stripped : BOOLEAN]) /\ Events
    BY Zenon DEF QInv, Types, Good
  <2>2. i \in 1..Len(got)
    BY <2>1
  <2> QED BY <2>1, <2>2, Zenon DEF Events
<1> QED BY <1>1, QInvAlways, PTL
=============================================================================
