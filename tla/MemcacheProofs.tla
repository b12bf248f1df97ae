--------------------------- MODULE MemcacheProofs ---------------------------
(***************************************************************************)
(* Proofs about Memcache: for any number of clients, keys, calls and       *)
(* failures, a client's stream stays in step with its calls, and the       *)
(* client implements the store of KeyValue.  The invariant says, for every *)
(* client, what of the answer to its call is still on the way, and that    *)
(* the method will make of it what the call meant when it took effect.     *)
(***************************************************************************)
EXTENDS Memcache, TLAPS

-----------------------------------------------------------------------------
(* The requests *)

Ops == {"Get", "GetAndTouch", "Set", "Add", "Replace", "Delete", "Increment", "Decrement",
        "Append", "Prepend", "Flush", "NoOp", "Version", "Stat", "Touch"}

Expected(op) ==
  CASE op \in {"Get", "GetAndTouch", "Increment", "Decrement"} -> {"KEY_NOT_FOUND"}
    [] op \in {"Set", "Add", "Delete"}                         -> {"KEY_EXISTS"}
    [] op = "Replace"                                          -> {"KEY_NOT_FOUND", "KEY_EXISTS"}
    [] OTHER                                                   -> {}

WellFormed(r) ==
  /\ r.op \in Ops /\ r.val \in Int /\ r.cas \in Nat /\ r.initial \in Int /\ r.create \in BOOLEAN
  /\ r.expected = Expected(r.op)

\* Every method sends one of the server's commands and expects the error codes
\* of that command (get, set, add, replace, delete_key, increment, append and
\* the commands without a key).
LEMMA RequestFacts == ASSUME NEW r \in Requests PROVE WellFormed(r)
<1>1. WellFormed(flush) /\ WellFormed(noop) /\ WellFormed(version) /\ WellFormed(stats)
  BY DEF WellFormed, Expected, Ops, flush, noop, version, stats, Plain, Request
<1>2. ASSUME NEW k \in Keys, NEW e \in BOOLEAN
      PROVE  WellFormed(get(k, e)) /\ WellFormed(append(k, e)) /\ WellFormed(touch(k)) /\ WellFormed(add(k, Text))
  BY DEF WellFormed, Expected, Ops, get, append, touch, add, write_key, Plain, Request, Text
<1>3. ASSUME NEW k \in Keys, NEW v \in Int, NEW n \in {0, 1}
      PROVE  WellFormed(set(k, v, n)) /\ WellFormed(replace(k, v, n)) /\ WellFormed(delete_key(k, n))
  BY DEF WellFormed, Expected, Ops, set, replace, delete_key, write_key, Request
<1>4. ASSUME NEW k \in Keys, NEW i \in {0, Top}, NEW d \in BOOLEAN
      PROVE  WellFormed(increment(k, 1, i, i = Top, d))
  BY TopAssumption DEF WellFormed, Expected, Ops, increment, Request
<1>5. Text \in Int
  BY DEF Text
<1> DEFINE A == {flush, noop, version, stats}
           B == UNION {{get(k, e), append(k, e), set(k, IF e THEN Text ELSE 1, 0), add(k, Text), touch(k)} :
                         k \in Keys, e \in BOOLEAN}
           C == UNION {{set(k, Text, 1), replace(k, Text, n), delete_key(k, n)} : k \in Keys, n \in {0, 1}}
           D == {increment(k, 1, i, i = Top, d) : k \in Keys, i \in {0, Top}, d \in BOOLEAN}
<1>6. CASE r \in A
  BY <1>1, <1>6
<1>7. CASE r \in B
  <2>1. PICK k \in Keys, e \in BOOLEAN :
          r \in {get(k, e), append(k, e), set(k, IF e THEN Text ELSE 1, 0), add(k, Text), touch(k)}
    BY <1>7
  <2>2. (IF e THEN Text ELSE 1) \in Int
    BY <1>5
  <2>3. WellFormed(set(k, IF e THEN Text ELSE 1, 0))
    BY <1>3, <2>2
  <2> QED BY <1>2, <2>1, <2>3, ZenonT(30)
<1>8. CASE r \in C
  BY <1>3, <1>5, <1>8
<1>9. CASE r \in D
  BY <1>4, <1>9
<1>10. Requests = A \cup B \cup C \cup D
  BY DEF Requests
<1> HIDE DEF A, B, C, D
<1> QED BY <1>6, <1>7, <1>8, <1>9, <1>10

-----------------------------------------------------------------------------
(* The invariant *)

Statuses == {"OK", "KEY_NOT_FOUND", "KEY_EXISTS", "NON_NUMERIC_INCR_DECR", "NOT_STORED", "BUSY"}

Headers ==
  [unit : {"header"}, status : Statuses, extras_size : Nat, key_size : Nat, body_size : Nat, cas : Nat]

Units == Headers \cup [unit : {"body"}, val : Int]

Says == {"threw", "done", "undecided", "found", "missing", "true", "false", "number", "text", "entries"}

Results == [says : Says, val : Int, cas : Nat]

Calls ==
  {Idle} \cup [pc : {"header"}, r : Requests, read : Nat]
         \cup [pc : {"body"}, r : Requests, read : Nat, header : Headers]

Items == [val : Int, cas : Nat]

Types ==
  /\ fd \in [Clients -> BOOLEAN] /\ link \in [Clients -> {"none", "up", "lost"}]
  /\ \A c \in Clients : fd[c] <=> link[c] # "none"
  /\ requests \in [Clients -> Seq(Requests)] /\ responses \in [Clients -> Seq(Units)]
  /\ call \in [Clients -> Calls] /\ given \in [Clients -> Results] /\ due \in [Clients -> Results]
  /\ cas \in Nat /\ store \in [DOMAIN store -> Items]
  /\ orphans \in Seq(Requests)

\* What a method that is not stats() makes of header h and body b.
Outcome(r, h, b) == IF h.status # "OK" THEN Refused(r, h) ELSE Accepted(r, h, b)

\* The answer is one response: s is what is left of its body, all of it while
\* the connection l is up, and with all of it the method returns x.
OneResponse(l, r, h, s, x) ==
  /\ r.op = "Stat" => h.status # "OK"
  /\ Len(s) <= h.body_size
  /\ l = "up" => Len(s) = h.body_size
  /\ Len(s) = h.body_size => Outcome(r, h, s) = x

\* What is left of the statistics after the first n units.
FromStatistics(l, s, n) ==
  /\ Len(s) <= 3 * Entries + 1 - n
  /\ l = "up" => Len(s) = 3 * Entries + 1 - n
  /\ \A i \in 1..Len(s) : s[i] = Statistics[n + i]

\* Call k waits for a header, and the answer s will make it return x.
HeaderDue(l, s, k, x) ==
  /\ k.pc = "header"
  /\ \/ /\ s = <<>> => l # "up"
        /\ s # <<>> => /\ s[1].unit = "header"
                       /\ OneResponse(l, k.r, s[1], SubSeq(s, 2, Len(s)), x)
     \/ /\ k.r.op = "Stat" /\ x = Result("entries", Entries, 0) /\ k.read <= Entries
        /\ FromStatistics(l, s, 3 * k.read)

\* Call k has read a header, and the rest s will make it return x.
BodyDue(l, s, k, x) ==
  /\ k.pc = "body"
  /\ \/ OneResponse(l, k.r, k.header, s, x)
     \/ /\ k.r.op = "Stat" /\ x = Result("entries", Entries, 0) /\ k.read <= Entries
        /\ k.header.status = "OK" /\ k.header.extras_size = 0
        /\ k.header.body_size = IF k.read < Entries THEN 2 ELSE 0
        /\ FromStatistics(l, s, 3 * k.read + 1)

\* A client with connection l, requests q, responses s, call k and result x due.
Quiet(q, s, x) == q = <<>> /\ s = <<>> /\ x = Undecided

Asked(l, q, s, k, x) ==
  /\ x = Undecided /\ l # "none" /\ s = <<>> /\ k.pc = "header" /\ k.read = 0
  /\ q = IF l = "up" THEN <<k.r>> ELSE <<>>

Answered(l, q, s, k, x) ==
  /\ x # Undecided /\ l # "none" /\ q = <<>>
  /\ HeaderDue(l, s, k, x) \/ BodyDue(l, s, k, x)

InStep(l, q, s, k, x) ==
  \/ k = Idle /\ Quiet(q, s, x)
  \/ k # Idle /\ (Asked(l, q, s, k, x) \/ Answered(l, q, s, k, x))

MInv == Types /\ \A c \in Clients : InStep(link[c], requests[c], responses[c], call[c], due[c])

-----------------------------------------------------------------------------
(* Sequences *)

\* Reading the first n of a sequence leaves the others.
LEMMA RestFacts ==
  ASSUME NEW S, NEW s \in Seq(S), NEW n \in 0..Len(s)
  PROVE  /\ SubSeq(s, n + 1, Len(s)) \in Seq(S)
         /\ Len(SubSeq(s, n + 1, Len(s))) = Len(s) - n
         /\ \A i \in 1..(Len(s) - n) : SubSeq(s, n + 1, Len(s))[i] = s[n + i]
  OBVIOUS

\* Losing what comes after the first n of a sequence leaves those.
LEMMA PrefixFacts ==
  ASSUME NEW S, NEW s \in Seq(S), NEW n \in 0..Len(s)
  PROVE  /\ SubSeq(s, 1, n) \in Seq(S) /\ Len(SubSeq(s, 1, n)) = n
         /\ \A i \in 1..n : SubSeq(s, 1, n)[i] = s[i]
  OBVIOUS

\* Two sequences one after the other.
LEMMA ConcatFact == ASSUME NEW S, NEW a \in Seq(S), NEW b \in Seq(S) PROVE a \o b \in Seq(S)
  OBVIOUS

\* A sequence of length 0 is empty.
LEMMA EmptyFact == ASSUME NEW S, NEW s \in Seq(S), Len(s) = 0 PROVE s = <<>>
  OBVIOUS

\* The statistics are headers of two pieces, and at the end a header of none.
LEMMA StatisticsFacts ==
  /\ Statistics \in Seq(Units) /\ Len(Statistics) = 3 * Entries + 1
  /\ \A n \in Nat : n < Entries => Statistics[3 * n + 1] = Header("OK", 0, 1, 0, 2)
  /\ Statistics[3 * Entries + 1] = Header("OK", 0, 0, 0, 0)
<1> DEFINE U(p) == CASE p > 3 * Entries -> Header("OK", 0, 0, 0, 0)
                     [] p <= 3 * Entries /\ p % 3 = 1 -> Header("OK", 0, 1, 0, 2)
                     [] p % 3 = 2 -> Piece(p \div 3 + 1)
                     [] OTHER     -> Piece(Text)
<1>1. Entries \in Nat /\ 3 * Entries + 1 \in Nat
  BY EntriesAssumption
<1>2. Statistics = [p \in 1..(3 * Entries + 1) |-> U(p)]
  BY DEF Statistics
<1>3. ASSUME NEW p \in 1..(3 * Entries + 1) PROVE U(p) \in Units
  <2>1. Header("OK", 0, 0, 0, 0) \in Units /\ Header("OK", 0, 1, 0, 2) \in Units
    <3>1. Header("OK", 0, 0, 0, 0) \in Headers /\ Header("OK", 0, 1, 0, 2) \in Headers
      BY DEF Headers, Header, Statuses
    <3> QED BY <3>1 DEF Units
  <2>2. p \div 3 + 1 \in Int /\ Text \in Int
    BY <1>1 DEF Text
  <2>3. Piece(p \div 3 + 1) \in Units /\ Piece(Text) \in Units
    BY <2>2 DEF Units, Piece
  <2> QED BY <2>1, <2>3
<1>4. ASSUME NEW n \in Nat, n < Entries PROVE U(3 * n + 1) = Header("OK", 0, 1, 0, 2)
  <2>1. ~(3 * n + 1 > 3 * Entries) /\ 3 * n + 1 <= 3 * Entries /\ (3 * n + 1) % 3 = 1
    BY <1>1, <1>4
  <2> QED BY <2>1
<1>5. U(3 * Entries + 1) = Header("OK", 0, 0, 0, 0)
  <2>1. 3 * Entries + 1 > 3 * Entries /\ ~(3 * Entries + 1 <= 3 * Entries)
        /\ (3 * Entries + 1) % 3 = 1
    BY <1>1
  <2> QED BY <2>1
<1> HIDE DEF U
<1>6. Statistics \in Seq(Units) /\ Len(Statistics) = 3 * Entries + 1
  BY <1>1, <1>2, <1>3
<1>7. \A n \in Nat : n < Entries => Statistics[3 * n + 1] = Header("OK", 0, 1, 0, 2)
  BY <1>1, <1>2, <1>4
<1>8. Statistics[3 * Entries + 1] = Header("OK", 0, 0, 0, 0)
  BY <1>1, <1>2, <1>5
<1> QED BY <1>6, <1>7, <1>8

-----------------------------------------------------------------------------
(* The client *)

\* Which units are headers.
LEMMA UnitFacts ==
  ASSUME NEW u \in Units
  PROVE  u.unit = "header" => u \in Headers /\ u.body_size \in Nat
  BY DEF Units, Headers

\* The three kinds of calls.
LEMMA CallFacts ==
  ASSUME NEW k \in Calls
  PROVE  /\ k.pc = "header" => k # Idle /\ k.r \in Requests /\ k.read \in Nat
         /\ k.pc = "body" => /\ k # Idle /\ k.r \in Requests /\ k.read \in Nat /\ k.header \in Headers
                             /\ k.header.body_size \in Nat
         /\ k.pc \notin {"header", "body"} => k = Idle
         /\ Idle.pc = "idle"
  BY DEF Calls, Idle, Headers

\* The call after it has begun, and after it has read a header.
LEMMA NewCallFacts ==
  ASSUME NEW r \in Requests, NEW n \in Nat
  PROVE  /\ [pc |-> "header", r |-> r, read |-> n] \in Calls
         /\ \A h \in Headers : [pc |-> "body", r |-> r, read |-> n, header |-> h] \in Calls
  BY DEF Calls

\* A call whose answer is not yet read to the end is waiting for a header or a
\* body (read_response_header).
LEMMA AnsweredFacts ==
  ASSUME NEW l, NEW q, NEW s, NEW k, NEW x, InStep(l, q, s, k, x), k # Idle, s # <<>>
  PROVE  Answered(l, q, s, k, x)
  BY DEF InStep, Asked

\* read_response_header reads a header, and the rest of the answer still makes
\* the call return what is due.
LEMMA HeaderStep ==
  ASSUME NEW l, NEW s \in Seq(Units), NEW k \in Calls, NEW x \in Results, k.pc = "header",
         Answered(l, <<>>, s, k, x), s # <<>>
  PROVE  /\ s[1] \in Headers
         /\ Answered(l, <<>>, SubSeq(s, 2, Len(s)),
                     [pc |-> "body", r |-> k.r, read |-> k.read, header |-> s[1]], x)
<1> DEFINE t == SubSeq(s, 2, Len(s))
           m == [pc |-> "body", r |-> k.r, read |-> k.read, header |-> s[1]]
<1>1. Len(s) \in Nat /\ Len(s) >= 1 /\ s[1] \in Units
  BY EmptyFact
<1>2. k.r \in Requests /\ k.read \in Nat
  BY CallFacts
<1>3. t \in Seq(Units) /\ Len(t) = Len(s) - 1 /\ \A i \in 1..(Len(s) - 1) : t[i] = s[1 + i]
  <2>1. 1 \in 0..Len(s) /\ 1 + 1 = 2
    BY <1>1
  <2>2. /\ SubSeq(s, 1 + 1, Len(s)) \in Seq(Units) /\ Len(SubSeq(s, 1 + 1, Len(s))) = Len(s) - 1
        /\ \A i \in 1..(Len(s) - 1) : SubSeq(s, 1 + 1, Len(s))[i] = s[1 + i]
    BY <2>1, RestFacts, ZenonT(30)
  <2> QED BY <2>1, <2>2, ZenonT(30)
<1>4. HeaderDue(l, s, k, x)
  BY DEF Answered, BodyDue
<1>5. m.pc = "body" /\ m.r = k.r /\ m.read = k.read /\ m.header = s[1]
  OBVIOUS
<1> HIDE DEF t, m
<1>6. CASE s[1].unit = "header" /\ OneResponse(l, k.r, s[1], t, x)
  <2>1. s[1] \in Headers
    BY <1>1, <1>6, UnitFacts
  <2>2. BodyDue(l, t, m, x)
    BY <1>5, <1>6 DEF BodyDue
  <2>3. Answered(l, <<>>, t, m, x)
    BY <2>2 DEF Answered
  <2> QED BY <2>1, <2>3 DEF t, m
<1>7. CASE /\ k.r.op = "Stat" /\ x = Result("entries", Entries, 0) /\ k.read <= Entries
           /\ FromStatistics(l, s, 3 * k.read)
  <2>1. s[1] = Statistics[3 * k.read + 1]
    BY <1>1, <1>7 DEF FromStatistics
  <2>2. s[1] = IF k.read < Entries THEN Header("OK", 0, 1, 0, 2) ELSE Header("OK", 0, 0, 0, 0)
    <3>1. CASE k.read < Entries
      BY <1>2, <2>1, <3>1, StatisticsFacts
    <3>2. CASE k.read = Entries
      BY <2>1, <3>2, StatisticsFacts, EntriesAssumption
    <3> QED BY <1>2, <1>7, <3>1, <3>2, EntriesAssumption
  <2>3. s[1].unit = "header" /\ s[1].status = "OK" /\ s[1].extras_size = 0
        /\ s[1].body_size = IF k.read < Entries THEN 2 ELSE 0
    BY <2>2 DEF Header
  <2>4. s[1] \in Headers
    BY <1>1, <2>3, UnitFacts
  <2>5. FromStatistics(l, t, 3 * k.read + 1)
    <3>1. /\ Len(s) <= 3 * Entries + 1 - 3 * k.read
          /\ l = "up" => Len(s) = 3 * Entries + 1 - 3 * k.read
          /\ \A i \in 1..Len(s) : s[i] = Statistics[3 * k.read + i]
      BY <1>7 DEF FromStatistics
    <3>2. /\ Len(t) <= 3 * Entries + 1 - (3 * k.read + 1)
          /\ l = "up" => Len(t) = 3 * Entries + 1 - (3 * k.read + 1)
      BY <1>1, <1>2, <1>3, <3>1, EntriesAssumption, SMTT(60)
    <3>3. ASSUME NEW i \in 1..Len(t) PROVE t[i] = Statistics[3 * k.read + 1 + i]
      <4>1. i \in 1..(Len(s) - 1) /\ i \in Int
        BY <1>3
      <4>2. 1 + i \in 1..Len(s)
        BY <1>1, <4>1
      <4>3. 3 * k.read + (1 + i) = 3 * k.read + 1 + i
        BY <1>2, <4>1, SMTT(60)
      <4> QED BY <1>3, <3>1, <4>1, <4>2, <4>3
    <3> QED BY <3>2, <3>3 DEF FromStatistics
  <2>6. BodyDue(l, t, m, x)
    BY <1>5, <1>7, <2>3, <2>5 DEF BodyDue
  <2>7. Answered(l, <<>>, t, m, x)
    BY <2>6 DEF Answered
  <2> QED BY <2>4, <2>7 DEF t, m
<1> QED BY <1>4, <1>6, <1>7 DEF HeaderDue, t

\* What the method returns once it has read the body s of header k.header.
Returned(k, s) ==
  IF k.header.status # "OK" THEN Refused(k.r, k.header)
  ELSE IF k.r.op = "Stat" THEN IF k.header.extras_size # 0 THEN Threw ELSE Result("entries", k.read, 0)
  ELSE Accepted(k.r, k.header, s)

\* A method reads a body: stats() goes on with the next response, or the method
\* returns what is due and leaves nothing unread (read_response_header, stats).
LEMMA BodyStep ==
  ASSUME NEW l, NEW s \in Seq(Units), NEW k \in Calls, NEW x \in Results, k.pc = "body",
         Answered(l, <<>>, s, k, x), Len(s) >= k.header.body_size
  PROVE  LET t == SubSeq(s, k.header.body_size + 1, Len(s))
         IN  IF k.r.op = "Stat" /\ StatsMore(k.header)
             THEN Answered(l, <<>>, t, [pc |-> "header", r |-> k.r, read |-> k.read + 1], x)
             ELSE t = <<>> /\ x = Returned(k, s)
<1> DEFINE h == k.header
           n == k.header.body_size
           t == SubSeq(s, n + 1, Len(s))
           m == [pc |-> "header", r |-> k.r, read |-> k.read + 1]
<1>1. k.r \in Requests /\ k.read \in Nat /\ h \in Headers /\ n \in Nat /\ Len(s) \in Nat
  BY CallFacts
<1>2. t \in Seq(Units) /\ Len(t) = Len(s) - n /\ \A i \in 1..(Len(s) - n) : t[i] = s[n + i]
  <2>1. n \in 0..Len(s)
    BY <1>1
  <2> HIDE DEF n
  <2> QED BY <2>1, RestFacts
<1>3. BodyDue(l, s, k, x)
  BY DEF Answered, HeaderDue
<1>4. m.pc = "header" /\ m.r = k.r /\ m.read = k.read + 1
  OBVIOUS
<1> HIDE DEF t, m
<1> SUFFICES IF k.r.op = "Stat" /\ StatsMore(h) THEN Answered(l, <<>>, t, m, x)
             ELSE t = <<>> /\ x = Returned(k, s)
  BY Zenon, ZenonT(30) DEF t, m
<1>5. CASE OneResponse(l, k.r, h, s, x)
  <2>1. ~(k.r.op = "Stat" /\ StatsMore(h))
    BY <1>5 DEF OneResponse, StatsMore
  <2>2. Len(s) = n
    BY <1>1, <1>5 DEF OneResponse
  <2>3. t = <<>>
    BY <1>1, <1>2, <2>2, EmptyFact
  <2>4. x = Outcome(k.r, h, s) /\ (k.r.op = "Stat" => h.status # "OK")
    BY <1>5, <2>2 DEF OneResponse
  <2>5. x = Returned(k, s)
    BY <2>4 DEF Outcome, Returned
  <2> QED BY <2>1, <2>3, <2>5
<1>6. CASE /\ k.r.op = "Stat" /\ x = Result("entries", Entries, 0) /\ k.read <= Entries
           /\ h.status = "OK" /\ h.extras_size = 0 /\ n = IF k.read < Entries THEN 2 ELSE 0
           /\ FromStatistics(l, s, 3 * k.read + 1)
  <2>1. /\ Len(s) <= 3 * Entries + 1 - (3 * k.read + 1)
        /\ l = "up" => Len(s) = 3 * Entries + 1 - (3 * k.read + 1)
        /\ \A i \in 1..Len(s) : s[i] = Statistics[3 * k.read + 1 + i]
    BY <1>6 DEF FromStatistics
  <2>2. CASE k.read < Entries
    <3>1. n = 2 /\ StatsMore(h)
      BY <1>6, <2>2 DEF StatsMore
    <3>2. /\ Len(t) <= 3 * Entries + 1 - 3 * (k.read + 1)
          /\ l = "up" => Len(t) = 3 * Entries + 1 - 3 * (k.read + 1)
      <4> DEFINE a == Len(t)
                 b == Len(s)
                 e == k.read
      <4>1. a = b - 2 /\ a \in Nat /\ b \in Nat /\ e \in Nat /\ Entries \in Nat
        BY <1>1, <1>2, <3>1, EntriesAssumption
      <4>2. b <= 3 * Entries + 1 - (3 * e + 1) /\ (l = "up" => b = 3 * Entries + 1 - (3 * e + 1))
        BY <2>1
      <4> HIDE DEF a, b, e
      <4>3. a <= 3 * Entries + 1 - 3 * (e + 1) /\ (l = "up" => a = 3 * Entries + 1 - 3 * (e + 1))
        BY <4>1, <4>2
      <4> QED BY <4>3 DEF a, b, e
    <3>3. ASSUME NEW i \in 1..Len(t) PROVE t[i] = Statistics[3 * (k.read + 1) + i]
      <4>1. i \in 1..(Len(s) - n) /\ i \in Int
        BY <1>2
      <4>2. 2 + i \in 1..Len(s)
        <5>1. i \in 1..(Len(s) - 2)
          BY <3>1, <4>1
        <5> HIDE DEF n
        <5> QED BY <1>1, <4>1, <5>1
      <4>3. 3 * k.read + 1 + (2 + i) = 3 * (k.read + 1) + i
        <5>1. \A e \in Nat : 3 * e + 1 + (2 + i) = 3 * (e + 1) + i
          BY <4>1
        <5> QED BY <1>1, <5>1, ZenonT(30)
      <4>4. t[i] = s[2 + i]
        BY <1>2, <3>1, <4>1
      <4> QED BY <2>1, <4>2, <4>3, <4>4
    <3>4. FromStatistics(l, t, 3 * m.read)
      BY <1>4, <3>2, <3>3 DEF FromStatistics
    <3>5. m.read <= Entries
      BY <1>1, <1>4, <2>2, EntriesAssumption
    <3>6. HeaderDue(l, t, m, x)
      BY <1>4, <1>6, <3>4, <3>5 DEF HeaderDue
    <3>7. Answered(l, <<>>, t, m, x)
      BY <3>6 DEF Answered
    <3> QED BY <1>6, <3>1, <3>7
  <2>3. CASE k.read = Entries
    <3>1. n = 0 /\ ~StatsMore(h) /\ Len(s) = 0
      BY <1>1, <1>6, <2>1, <2>3, EntriesAssumption DEF StatsMore
    <3>2. t = <<>>
      BY <1>2, <3>1, EmptyFact
    <3>3. x = Returned(k, s)
      BY <1>6, <2>3 DEF Returned
    <3> QED BY <3>1, <3>2, <3>3
  <2> QED BY <1>1, <1>6, <2>2, <2>3, EntriesAssumption
<1> QED BY <1>3, <1>5, <1>6 DEF BodyDue

\* A connection fails: what is left of the answer is the beginning of what was
\* due, and the call never takes a part of it for the whole.
LEMMA LoseStep ==
  ASSUME NEW q, NEW s \in Seq(Units), NEW k \in Calls, NEW x \in Results, NEW n \in 0..Len(s),
         InStep("up", q, s, k, x)
  PROVE  InStep("lost", <<>>, SubSeq(s, 1, n), k, x)
<1> DEFINE t == SubSeq(s, 1, n)
<1>1. t \in Seq(Units) /\ Len(t) = n /\ (\A i \in 1..n : t[i] = s[i]) /\ n \in Nat /\ n <= Len(s) /\ Len(s) \in Nat
  BY PrefixFacts
<1> HIDE DEF t
<1>2. s = <<>> => t = <<>>
  BY <1>1, EmptyFact
<1>3. CASE k = Idle \/ Asked("up", q, s, k, x)
  BY <1>2, <1>3 DEF InStep, Quiet, Asked, Answered, t
<1>4. ASSUME NEW j \in Nat, FromStatistics("up", s, j) PROVE FromStatistics("lost", t, j)
  <2>1. Len(s) = 3 * Entries + 1 - j /\ \A i \in 1..Len(s) : s[i] = Statistics[j + i]
    BY <1>4 DEF FromStatistics
  <2>2. Len(t) <= 3 * Entries + 1 - j
    BY <1>1, <2>1, EntriesAssumption
  <2>3. \A i \in 1..Len(t) : t[i] = Statistics[j + i]
    BY <1>1, <2>1
  <2> QED BY <2>2, <2>3 DEF FromStatistics
<1>5. ASSUME NEW h \in Headers, NEW a \in Seq(Units), NEW b \in Seq(Units), NEW r, OneResponse("up", r, h, a, x),
             Len(b) <= Len(a), Len(b) = Len(a) => b = a
      PROVE  OneResponse("lost", r, h, b, x)
  <2>1. h.body_size \in Nat /\ Len(a) \in Nat /\ Len(b) \in Nat
    BY DEF Headers
  <2> QED BY <1>5, <2>1 DEF OneResponse
<1>6. n = Len(s) => t = s
  BY <1>1
<1>7. CASE k # Idle /\ Answered("up", q, s, k, x) /\ BodyDue("up", s, k, x)
  <2>1. k.read \in Nat /\ k.header \in Headers /\ 3 * k.read + 1 \in Nat
    BY <1>7, CallFacts DEF BodyDue
  <2>2. BodyDue("lost", t, k, x)
    <3>1. CASE OneResponse("up", k.r, k.header, s, x)
      BY <1>1, <1>5, <1>6, <1>7, <2>1, <3>1 DEF BodyDue
    <3>2. CASE FromStatistics("up", s, 3 * k.read + 1)
      <4>1. FromStatistics("lost", t, 3 * k.read + 1)
        BY <1>4, <2>1, <3>2
      <4> QED BY <1>7, <3>1, <4>1 DEF BodyDue
    <3> QED BY <1>7, <3>1, <3>2 DEF BodyDue
  <2> QED BY <1>7, <2>2 DEF InStep, Answered, t
<1>8. CASE k # Idle /\ Answered("up", q, s, k, x) /\ HeaderDue("up", s, k, x)
  <2>1. k.read \in Nat /\ 3 * k.read \in Nat
    BY <1>8, CallFacts DEF HeaderDue
  <2>2. HeaderDue("lost", t, k, x)
    <3>1. CASE t = <<>>
      BY <1>8, <3>1 DEF HeaderDue
    <3>2. CASE t # <<>> /\ s # <<>> /\ s[1].unit = "header" /\ OneResponse("up", k.r, s[1], SubSeq(s, 2, Len(s)), x)
      <4>1. Len(t) >= 1 /\ t[1] = s[1] /\ s[1] \in Headers
        BY <1>1, <3>2, EmptyFact, UnitFacts
      <4>2. /\ SubSeq(s, 2, Len(s)) \in Seq(Units) /\ SubSeq(t, 2, Len(t)) \in Seq(Units)
            /\ Len(SubSeq(s, 2, Len(s))) = Len(s) - 1 /\ Len(SubSeq(t, 2, Len(t))) = Len(t) - 1
        <5>1. 1 \in 0..Len(s) /\ 1 \in 0..Len(t) /\ 1 + 1 = 2
          BY <1>1, <4>1
        <5>2. /\ SubSeq(s, 1 + 1, Len(s)) \in Seq(Units) /\ SubSeq(t, 1 + 1, Len(t)) \in Seq(Units)
              /\ Len(SubSeq(s, 1 + 1, Len(s))) = Len(s) - 1 /\ Len(SubSeq(t, 1 + 1, Len(t))) = Len(t) - 1
          BY <1>1, <5>1, RestFacts, ZenonT(60)
        <5> QED BY <5>1, <5>2, ZenonT(30)
      <4>3. OneResponse("lost", k.r, s[1], SubSeq(t, 2, Len(t)), x)
        <5>1. /\ Len(SubSeq(t, 2, Len(t))) <= Len(SubSeq(s, 2, Len(s)))
              /\ Len(SubSeq(t, 2, Len(t))) = Len(SubSeq(s, 2, Len(s))) => n = Len(s)
          BY <1>1, <4>2
        <5>2. Len(SubSeq(t, 2, Len(t))) = Len(SubSeq(s, 2, Len(s))) => SubSeq(t, 2, Len(t)) = SubSeq(s, 2, Len(s))
          BY <1>6, <5>1, ZenonT(30)
        <5> QED BY <1>5, <3>2, <4>1, <4>2, <5>1, <5>2, ZenonT(30)
      <4> QED BY <1>8, <3>2, <4>1, <4>3 DEF HeaderDue
    <3>3. CASE FromStatistics("up", s, 3 * k.read) /\ k.r.op = "Stat" /\ x = Result("entries", Entries, 0) /\ k.read <= Entries
      BY <1>4, <1>8, <2>1, <3>3 DEF HeaderDue
    <3> QED BY <1>2, <1>8, <3>1, <3>2, <3>3 DEF HeaderDue
  <2> QED BY <1>8, <2>2 DEF InStep, Answered, t
<1> QED BY <1>3, <1>7, <1>8 DEF InStep, Answered

-----------------------------------------------------------------------------
(* The server *)

\* What the server answers to each command: the errors that it can give.
LEMMA StatusFacts ==
  ASSUME NEW s, NEW r, r.op \in Ops
  PROVE  LET st == KV!Status(s, r)
             has == KV!Has(s, r)
         IN  /\ st \in Statuses
             /\ r.op \in {"Get", "GetAndTouch", "Touch"} => st = IF has THEN "OK" ELSE "KEY_NOT_FOUND"
             /\ r.op \in {"Set", "Delete"} => st \in {"OK", IF has THEN "KEY_EXISTS" ELSE "KEY_NOT_FOUND"}
             /\ r.op = "Add" => st \in {"OK", "KEY_EXISTS"}
             /\ r.op = "Replace" => st \in {"OK", "KEY_NOT_FOUND", "KEY_EXISTS"}
             /\ r.op \in {"Flush", "NoOp", "Version", "Stat"} => st = "OK"
<1>1. CASE r.op \in {"Get", "GetAndTouch", "Touch"}
  BY <1>1, SMTT(60) DEF KV!Status, Statuses
<1>2. CASE r.op \in {"Set", "Add"}
  BY <1>2, SMTT(60) DEF KV!Status, KV!Stale, Statuses
<1>3. CASE r.op \in {"Replace", "Delete"}
  BY <1>3 DEF KV!Status, KV!Stale, Statuses
<1>4. CASE r.op \in {"Increment", "Decrement", "Append", "Prepend"}
  BY <1>4, SMTT(60) DEF KV!Status, Statuses
<1>5. CASE r.op \in {"Flush", "NoOp", "Version", "Stat"}
  BY <1>5 DEF KV!Status, Statuses
<1> QED BY <1>1, <1>2, <1>3, <1>4, <1>5, SMTT(60) DEF Ops

\* An item that is read, counted or written has a value and a cas value.
LEMMA StoreFacts ==
  ASSUME NEW s, s \in [DOMAIN s -> Items], NEW r, WellFormed(r)
  PROVE  /\ KV!Has(s, r) => s[r.key].val \in Int /\ s[r.key].cas \in Nat
         /\ KV!Count(s, r) \in Int
         /\ \A n \in Nat : KV!After(s, r, n) \in [DOMAIN KV!After(s, r, n) -> Items]
<1>1. KV!Has(s, r) => s[r.key].val \in Int /\ s[r.key].cas \in Nat
  BY DEF KV!Has, Items
<1>2. KV!Count(s, r) \in Int
  BY <1>1, TopAssumption DEF KV!Count, WellFormed
<1>3. KV!NewValue(s, r) \in Int
  BY <1>2 DEF KV!NewValue, WellFormed, KV!Text
<1>4. ASSUME NEW n \in Nat PROVE KV!After(s, r, n) \in [DOMAIN KV!After(s, r, n) -> Items]
  <2>1. [val |-> KV!NewValue(s, r), cas |-> n] \in Items
    BY <1>3 DEF Items
  <2> HIDE DEF Items
  <2>2. CASE KV!Status(s, r) # "OK" \/ r.op \notin KV!Writes \cup {"Flush", "Delete"}
    <3>1. KV!After(s, r, n) = s
      BY <2>2, SMTT(30) DEF KV!After, KV!Writes
    <3> QED BY <3>1
  <2>3. CASE KV!Status(s, r) = "OK" /\ r.op = "Flush"
    BY <2>3 DEF KV!After, KV!Writes
  <2>4. CASE KV!Status(s, r) = "OK" /\ r.op = "Delete"
    BY <2>4 DEF KV!After, KV!Writes
  <2>5. CASE KV!Status(s, r) = "OK" /\ r.op \in KV!Writes
    <3> DEFINE f == [k \in DOMAIN s \cup {r.key} |->
                       IF k = r.key THEN [val |-> KV!NewValue(s, r), cas |-> n] ELSE s[k]]
    <3>1. r.op # "Flush" /\ r.op # "Delete"
      BY <2>5 DEF KV!Writes
    <3>2. KV!After(s, r, n) = f
      BY <2>5, <3>1 DEF KV!After
    <3>3. f \in [DOMAIN f -> Items]
      BY <2>1
    <3> QED BY <3>2, <3>3
  <2> QED BY <2>2, <2>3, <2>4, <2>5
<1> QED BY <1>1, <1>2, <1>4

\* A response that the server sends whole makes the method return x, if it
\* does so for any body with these pieces.
LEMMA PacketFacts ==
  ASSUME NEW r, NEW st \in Statuses, NEW e \in Nat, NEW y \in Nat, NEW n \in Nat, NEW b \in Seq(Int), NEW x,
         r.op = "Stat" => st # "OK",
         \A t : (\A i \in 1..Len(b) : t[i].val = b[i]) => Outcome(r, Header(st, e, y, n, Len(b)), t) = x
  PROVE  /\ Packet(st, e, y, n, b) \in Seq(Units)
         /\ \A k : k.pc = "header" /\ k.r = r => HeaderDue("up", Packet(st, e, y, n, b), k, x)
<1> DEFINE h == Header(st, e, y, n, Len(b))
           d == [i \in 1..Len(b) |-> Piece(b[i])]
           p == <<h>> \o d
<1>1. h \in Headers /\ h.unit = "header" /\ h.status = st /\ h.body_size = Len(b)
  BY DEF Header, Headers
<1>2. d \in Seq(Units) /\ Len(d) = Len(b)
  <2>1. \A i \in 1..Len(b) : Piece(b[i]) \in Units
    BY DEF Units, Piece
  <2> QED BY <2>1
<1>3. \A i \in 1..Len(b) : d[i].val = b[i]
  BY DEF Piece
<1>4. p = Packet(st, e, y, n, b)
  BY DEF Packet
<1>5. h \in Units
  BY <1>1 DEF Units
<1> HIDE DEF h, d
<1>6. p \in Seq(Units) /\ p # <<>> /\ p[1] = h /\ Len(p) = 1 + Len(b) /\ \A i \in 1..Len(b) : p[1 + i] = d[i]
  BY <1>2, <1>5
<1> HIDE DEF p
<1> DEFINE t == SubSeq(p, 2, Len(p))
<1>7. Len(t) = Len(b) /\ \A i \in 1..Len(b) : t[i] = p[1 + i]
  BY <1>6
<1>8. \A i \in 1..Len(b) : t[i].val = b[i]
  BY <1>3, <1>6, <1>7, ZenonT(30)
<1> HIDE DEF t
<1>9. OneResponse("up", r, h, t, x)
  <2>1. Outcome(r, h, t) = x
    BY <1>8 DEF h
  <2> QED BY <1>1, <1>7, <2>1 DEF OneResponse
<1> QED BY <1>1, <1>4, <1>6, <1>9 DEF HeaderDue, t

\* What a call means is a result.
LEMMA MeaningFacts ==
  ASSUME NEW s, s \in [DOMAIN s -> Items], NEW r, WellFormed(r)
  PROVE  KV!Meaning(s, r) \in Results /\ KV!Meaning(s, r) # Undecided
<1> DEFINE m == KV!Meaning(s, r)
<1>1. r.op \in Ops
  BY DEF WellFormed
<1>2. \A w \in Says, v \in Int, n \in Nat : w # "undecided" => KV!Result(w, v, n) \in Results /\ KV!Result(w, v, n) # Undecided
  BY DEF Results, KV!Result, Undecided, Result
<1>3. /\ KV!Has(s, r) => s[r.key].val \in Int /\ s[r.key].cas \in Nat
      /\ KV!Count(s, r) \in Int /\ Entries \in Nat /\ KV!Text \in Int
  BY StoreFacts, EntriesAssumption DEF KV!Text
<1>4. /\ \E w \in Says, v \in Int, n \in Nat : w # "undecided" /\ m = KV!Result(w, v, n)
  <2>1. CASE r.op \in {"Get", "GetAndTouch"}
    <3>1. KV!Status(s, r) = IF KV!Has(s, r) THEN "OK" ELSE "KEY_NOT_FOUND"
      BY <2>1, StatusFacts DEF Ops
    <3> QED BY <1>3, <2>1, <3>1 DEF KV!Meaning, Says
  <2>2. CASE r.op \in {"Set", "Add", "Replace", "Delete"}
    BY <2>2 DEF KV!Meaning, KV!Threw, Says
  <2>3. CASE r.op \in {"Increment", "Decrement"}
    BY <1>3, <2>3 DEF KV!Meaning, KV!Threw, Says
  <2>4. CASE r.op \in {"Version", "Stat"}
    BY <1>3, <2>4 DEF KV!Meaning, Says
  <2>5. CASE r.op \in {"Append", "Prepend", "Flush", "NoOp", "Touch"}
    BY <2>5 DEF KV!Meaning, KV!Threw, Says
  <2> QED BY <1>1, <2>1, <2>2, <2>3, <2>4, <2>5 DEF Ops
<1> QED BY <1>2, <1>4

\* The server's answer to a request makes the method return what the call
\* meant in the store it found (every method of Memcache::Client).
LEMMA AnswerFacts ==
  ASSUME store \in [DOMAIN store -> Items], cas \in Nat, NEW r \in Requests
  PROVE  /\ Answer(r) \in Seq(Units)
         /\ \A k : k.pc = "header" /\ k.r = r /\ k.read = 0 => HeaderDue("up", Answer(r), k, KV!Meaning(store, r))
<1> DEFINE m == KV!Meaning(store, r)
           st == KV!Status(store, r)
           G(p) == p \in Seq(Units) /\ \A k : k.pc = "header" /\ k.r = r /\ k.read = 0 => HeaderDue("up", p, k, m)
<1>1. WellFormed(r) /\ r.op \in Ops /\ r.expected = Expected(r.op) /\ st \in Statuses
  BY RequestFacts, StatusFacts DEF WellFormed
<1>2. /\ KV!Has(store, r) => store[r.key].val \in Int /\ store[r.key].cas \in Nat
      /\ KV!Count(store, r) \in Int /\ Text \in Int
  BY <1>1, StoreFacts DEF Text
<1> SUFFICES G(Answer(r))
  OBVIOUS
<1>3. CASE st # "OK"
  <2>1. ASSUME NEW h, h.status = st PROVE Refused(r, h) = m
    <3>1. CASE r.op \in {"Get", "GetAndTouch"}
      <4>1. st = "KEY_NOT_FOUND" /\ r.expected = {"KEY_NOT_FOUND"}
        BY <1>1, <1>3, <3>1, StatusFacts DEF Expected
      <4> QED BY <1>3, <2>1, <3>1, <4>1 DEF Refused, KV!Meaning, Result, KV!Result
    <3>2. CASE r.op \in {"Set", "Delete"}
      <4>1. st = IF KV!Has(store, r) THEN "KEY_EXISTS" ELSE "KEY_NOT_FOUND"
        BY <1>1, <1>3, <3>2, StatusFacts
      <4>2. r.expected = {"KEY_EXISTS"}
        BY <1>1, <3>2 DEF Expected
      <4> QED BY <1>3, <2>1, <3>2, <4>1, <4>2 DEF Refused, KV!Meaning, Result, KV!Result, Threw, KV!Threw
    <3>3. CASE r.op \in {"Add", "Replace"}
      <4>1. st \in r.expected
        BY <1>1, <1>3, <3>3, StatusFacts DEF Expected
      <4> QED BY <1>3, <2>1, <3>3, <4>1 DEF Refused, KV!Meaning, Result, KV!Result
    <3>4. CASE r.op \in {"Increment", "Decrement"}
      BY <1>3, <2>1, <3>4 DEF Refused, KV!Meaning, KV!Result, Result, Threw, KV!Threw
    <3>5. CASE r.op \in {"Append", "Prepend", "Touch"}
      <4>1. st \notin r.expected
        BY <1>1, <3>5 DEF Expected
      <4> QED BY <1>3, <2>1, <3>5, <4>1 DEF Refused, KV!Meaning, KV!Result, Result, Threw, KV!Threw
    <3>6. CASE r.op \in {"Flush", "NoOp", "Version", "Stat"}
      BY <1>1, <1>3, <3>6, StatusFacts
    <3> QED BY <1>1, <3>1, <3>2, <3>3, <3>4, <3>5, <3>6 DEF Ops
  <2>2. Answer(r) = Packet(st, 0, 0, 0, <<Text>>)
    BY <1>3 DEF Answer
  <2>3. Header(st, 0, 0, 0, Len(<<Text>>)).status = st
    BY DEF Header
  <2> DEFINE b == <<Text>>
  <2>4. b \in Seq(Int) /\ 0 \in Nat
    BY <1>2
  <2> HIDE DEF b, m, st
  <2>5. \A t : (\A i \in 1..Len(b) : t[i].val = b[i]) => Outcome(r, Header(st, 0, 0, 0, Len(b)), t) = m
    BY <1>3, <2>1, <2>3 DEF Outcome, b
  <2>6. G(Packet(st, 0, 0, 0, b))
    BY <1>1, <1>3, <2>4, <2>5, PacketFacts, ZenonT(30)
  <2> QED BY <2>2, <2>6 DEF b
<1>4. CASE st = "OK"
  <2>1. CASE r.op \in {"Get", "GetAndTouch"}
    <3> DEFINE b == <<0, store[r.key].val>>
               n == store[r.key].cas
    <3>1. KV!Has(store, r)
      BY <1>1, <1>4, <2>1, StatusFacts
    <3>2. b \in Seq(Int) /\ n \in Nat /\ 0 \in Nat /\ 1 \in Nat /\ Len(b) = 2 /\ b[2] = store[r.key].val
      BY <1>2, <3>1
    <3>3. m = Result("found", store[r.key].val, n)
      BY <1>4, <2>1 DEF KV!Meaning, KV!Result, Result
    <3>4. Answer(r) = Packet("OK", 1, 0, n, b)
      BY <1>4, <2>1 DEF Answer
    <3> HIDE DEF b, m, n, st
    <3>5. ASSUME NEW t, \A i \in 1..Len(b) : t[i].val = b[i] PROVE Outcome(r, Header("OK", 1, 0, n, Len(b)), t) = m
      <4>1. t[2].val = store[r.key].val
        BY <3>2, <3>5
      <4> QED BY <2>1, <3>3, <4>1 DEF Outcome, Accepted, GetResult, Header
    <3>6. "OK" \in Statuses /\ r.op # "Stat"
      BY <2>1 DEF Statuses
    <3>7. G(Packet("OK", 1, 0, n, b))
      BY <3>2, <3>5, <3>6, PacketFacts, ZenonT(30)
    <3> QED BY <3>4, <3>7
  <2>2. CASE r.op \in {"Increment", "Decrement"}
    <3> DEFINE b == <<KV!Count(store, r)>>
    <3>2. b \in Seq(Int) /\ cas + 1 \in Nat /\ 0 \in Nat /\ Len(b) = 1 /\ b[1] = KV!Count(store, r)
      BY <1>2
    <3>3. m = Result("number", KV!Count(store, r), 0)
      BY <1>4, <2>2 DEF KV!Meaning, KV!Result, Result
    <3>4. Answer(r) = Packet("OK", 0, 0, cas + 1, b)
      BY <1>4, <2>2 DEF Answer
    <3> HIDE DEF b, m, st
    <3>5. ASSUME NEW t, \A i \in 1..Len(b) : t[i].val = b[i]
          PROVE  Outcome(r, Header("OK", 0, 0, cas + 1, Len(b)), t) = m
      <4>1. t[1].val = KV!Count(store, r)
        BY <3>2, <3>5
      <4> QED BY <2>2, <3>2, <3>3, <4>1 DEF Outcome, Accepted, CountResult, Header
    <3>6. "OK" \in Statuses /\ r.op # "Stat"
      BY <2>2 DEF Statuses
    <3>7. G(Packet("OK", 0, 0, cas + 1, b))
      BY <3>2, <3>5, <3>6, PacketFacts, ZenonT(30)
    <3> QED BY <3>4, <3>7
  <2>3. CASE r.op = "Version"
    <3> DEFINE b == <<Text>>
    <3>2. b \in Seq(Int) /\ 0 \in Nat /\ Len(b) = 1 /\ b[1] = Text
      BY <1>2
    <3>3. m = Result("text", Text, 0)
      BY <1>4, <2>3 DEF KV!Meaning, KV!Result, Result, Text, KV!Text
    <3>4. Answer(r) = Packet("OK", 0, 0, 0, b)
      BY <1>4, <2>3 DEF Answer
    <3> HIDE DEF b, m, st
    <3>5. ASSUME NEW t, \A i \in 1..Len(b) : t[i].val = b[i] PROVE Outcome(r, Header("OK", 0, 0, 0, Len(b)), t) = m
      <4>1. t[1].val = Text
        BY <3>2, <3>5
      <4> QED BY <2>3, <3>3, <4>1 DEF Outcome, Accepted, Header
    <3>6. "OK" \in Statuses /\ r.op # "Stat"
      BY <2>3 DEF Statuses
    <3>7. G(Packet("OK", 0, 0, 0, b))
      BY <3>2, <3>5, <3>6, PacketFacts, ZenonT(30)
    <3> QED BY <3>4, <3>7
  <2>4. CASE r.op = "Stat"
    <3>1. Answer(r) = Statistics /\ m = Result("entries", Entries, 0)
      BY <1>4, <2>4 DEF Answer, KV!Meaning, KV!Result, Result
    <3> HIDE DEF m, st
    <3>2. Statistics \in Seq(Units) /\ Len(Statistics) = 3 * Entries + 1 /\ Entries \in Nat /\ 0 <= Entries
      BY StatisticsFacts, EntriesAssumption
    <3>3. FromStatistics("up", Statistics, 3 * 0)
      BY <3>2 DEF FromStatistics
    <3>4. ASSUME NEW k, k.pc = "header", k.r = r, k.read = 0 PROVE HeaderDue("up", Statistics, k, m)
      BY <2>4, <3>1, <3>2, <3>3, <3>4 DEF HeaderDue
    <3> QED BY <3>1, <3>2, <3>4
  <2>5. CASE r.op \in {"Set", "Add", "Replace", "Delete", "Append", "Prepend", "Flush", "NoOp", "Touch"}
    <3> DEFINE b == <<>>
    <3>2. b \in Seq(Int) /\ cas + 1 \in Nat /\ 0 \in Nat /\ Len(b) = 0
      OBVIOUS
    <3>3. m = IF r.op \in {"Set", "Add", "Replace", "Delete"} THEN Result("true", 0, 0) ELSE Done
      BY <1>4, <2>5 DEF KV!Meaning, KV!Result, Result, Done
    <3>4. Answer(r) = Packet("OK", 0, 0, cas + 1, b)
      BY <1>4, <2>5 DEF Answer
    <3> HIDE DEF b, m, st
    <3>5. ASSUME NEW t PROVE Outcome(r, Header("OK", 0, 0, cas + 1, Len(b)), t) = m
      BY <2>5, <3>2, <3>3 DEF Outcome, Accepted, WriteResult, Header
    <3>6. "OK" \in Statuses /\ r.op # "Stat"
      BY <2>5 DEF Statuses
    <3>7. G(Packet("OK", 0, 0, cas + 1, b))
      BY <3>2, <3>5, <3>6, PacketFacts, ZenonT(30)
    <3> QED BY <3>4, <3>7
  <2> QED BY <1>1, <2>1, <2>2, <2>3, <2>4, <2>5 DEF Ops
<1> QED BY <1>3, <1>4

-----------------------------------------------------------------------------
(* Every step keeps the invariant *)

\* A step of one client leaves the others as they were.
LEMMA OneClient ==
  ASSUME MInv, NEW c \in Clients, Types',
         \A d \in Clients : d # c => /\ link'[d] = link[d] /\ requests'[d] = requests[d]
                                     /\ responses'[d] = responses[d] /\ call'[d] = call[d] /\ due'[d] = due[d],
         InStep(link'[c], requests'[c], responses'[c], call'[c], due'[c])
  PROVE  MInv'
<1>1. ASSUME NEW d \in Clients PROVE InStep(link'[d], requests'[d], responses'[d], call'[d], due'[d])
  <2>1. CASE d = c
    BY <2>1
  <2>2. CASE d # c
    BY <2>2, ZenonT(30) DEF MInv
  <2> QED BY <2>1, <2>2
<1> QED BY <1>1 DEF MInv

\* Nothing has begun.
LEMMA MInvInit == Init => MInv
<1> SUFFICES ASSUME Init PROVE MInv
  OBVIOUS
<1>1. Idle \in Calls /\ Done \in Results /\ Undecided \in Results
  BY DEF Calls, Results, Done, Undecided, Result, Says
<1>2. store \in [DOMAIN store -> Items]
  <2>1. [val |-> Top, cas |-> 1] \in Items
    BY TopAssumption DEF Items
  <2> QED BY <2>1 DEF Init
<1>3. Types
  BY <1>1, <1>2 DEF Init, Types
<1>4. ASSUME NEW c \in Clients PROVE InStep(link[c], requests[c], responses[c], call[c], due[c])
  BY DEF Init, InStep, Quiet
<1> QED BY <1>3, <1>4 DEF MInv

\* A request that has not arrived yet is the one of the call in progress, and
\* nothing of an answer is on the way.
LEMMA ServingFacts ==
  ASSUME MInv, NEW c \in Clients, link[c] = "up", requests[c] # <<>>
  PROVE  /\ call[c] # Idle /\ call[c].pc = "header" /\ call[c].read = 0 /\ call[c].r \in Requests
         /\ requests[c] = <<call[c].r>> /\ Head(requests[c]) = call[c].r /\ Tail(requests[c]) = <<>>
         /\ responses[c] = <<>> /\ due[c] = Undecided
<1>1. Asked(link[c], requests[c], responses[c], call[c], due[c]) /\ call[c] # Idle
  BY DEF MInv, InStep, Quiet, Answered
<1>2. /\ call[c].pc = "header" /\ call[c].read = 0 /\ requests[c] = <<call[c].r>>
      /\ responses[c] = <<>> /\ due[c] = Undecided
  BY <1>1 DEF Asked
<1>3. call[c].r \in Requests
  BY <1>2, CallFacts DEF MInv, Types
<1> QED BY <1>1, <1>2, <1>3

\* The server answers the request of c with answer a, and x is due.
LEMMA AnswerStep ==
  ASSUME MInv, NEW c \in Clients, link[c] = "up", requests[c] # <<>>,
         NEW a \in Seq(Units), NEW x \in Results, x # Undecided,
         \A k : k.pc = "header" /\ k.r = call[c].r /\ k.read = 0 => HeaderDue("up", a, k, x),
         responses' = [responses EXCEPT ![c] = @ \o a], due' = [due EXCEPT ![c] = x],
         requests' = [requests EXCEPT ![c] = Tail(@)], UNCHANGED <<conn, call, given, orphans>>,
         cas' \in Nat, store' \in [DOMAIN store' -> Items]
  PROVE  MInv'
<1>1. /\ call[c] # Idle /\ call[c].pc = "header" /\ call[c].read = 0
      /\ Tail(requests[c]) = <<>> /\ responses[c] = <<>>
  BY ServingFacts
<1>2. Types
  BY DEF MInv
<1>3. responses[c] \o a = a /\ <<>> \in Seq(Requests)
  BY <1>1
<1>4. responses' = [responses EXCEPT ![c] = a] /\ requests' = [requests EXCEPT ![c] = <<>>]
  BY <1>1, <1>3, ZenonT(30)
<1>5. Types'
  BY <1>2, <1>3, <1>4 DEF Types, conn
<1>6. /\ responses'[c] = a /\ requests'[c] = <<>> /\ due'[c] = x /\ link'[c] = "up" /\ call'[c] = call[c]
  BY <1>2, <1>4 DEF Types, conn
<1>7. HeaderDue("up", a, call[c], x)
  BY <1>1, ZenonT(30)
<1>8. InStep(link'[c], requests'[c], responses'[c], call'[c], due'[c])
  BY <1>1, <1>6, <1>7 DEF InStep, Answered
<1>9. \A d \in Clients : d # c => /\ link'[d] = link[d] /\ requests'[d] = requests[d]
                                  /\ responses'[d] = responses[d] /\ call'[d] = call[d] /\ due'[d] = due[d]
  BY <1>2, <1>4 DEF Types, conn
<1> QED BY <1>5, <1>8, <1>9, OneClient

\* The server executes a request.
LEMMA ServeStep == ASSUME MInv, NEW c \in Clients, Serve(c) PROVE MInv'
<1> DEFINE r == call[c].r
<1>1. link[c] = "up" /\ requests[c] # <<>>
  BY DEF Serve
<1>2. r \in Requests /\ Head(requests[c]) = r /\ store \in [DOMAIN store -> Items] /\ cas \in Nat
  BY <1>1, ServingFacts DEF MInv, Types
<1>3. /\ store' = KV!After(store, r, cas + 1) /\ cas' = cas + 1
      /\ responses' = [responses EXCEPT ![c] = @ \o Answer(r)] /\ due' = [due EXCEPT ![c] = KV!Meaning(store, r)]
      /\ requests' = [requests EXCEPT ![c] = Tail(@)] /\ UNCHANGED <<conn, call, given, orphans>>
  BY <1>2, ZenonT(30) DEF Serve
<1> HIDE DEF r
<1>4. WellFormed(r) /\ cas + 1 \in Nat
  BY <1>2, RequestFacts
<1>5. store' \in [DOMAIN store' -> Items] /\ cas' \in Nat
  BY <1>2, <1>3, <1>4, StoreFacts
<1>6. KV!Meaning(store, r) \in Results /\ KV!Meaning(store, r) # Undecided
  BY <1>2, <1>4, MeaningFacts
<1>7. /\ Answer(r) \in Seq(Units)
      /\ \A k : k.pc = "header" /\ k.r = call[c].r /\ k.read = 0 => HeaderDue("up", Answer(r), k, KV!Meaning(store, r))
  BY <1>2, AnswerFacts, ZenonT(30) DEF r
<1> QED BY <1>1, <1>3, <1>5, <1>6, <1>7, AnswerStep, ZenonT(30)

\* The server refuses a request.
LEMMA RefuseStep == ASSUME MInv, NEW c \in Clients, Refuse(c) PROVE MInv'
<1> DEFINE r == call[c].r
           b == <<Text>>
           a == Packet("BUSY", 0, 0, 0, b)
<1>1. link[c] = "up" /\ requests[c] # <<>>
  BY DEF Refuse
<1>2. r \in Requests /\ Head(requests[c]) = r /\ store \in [DOMAIN store -> Items] /\ cas \in Nat
  BY <1>1, ServingFacts DEF MInv, Types
<1>3. /\ responses' = [responses EXCEPT ![c] = @ \o a] /\ due' = [due EXCEPT ![c] = Threw]
      /\ requests' = [requests EXCEPT ![c] = Tail(@)] /\ UNCHANGED <<conn, call, given, orphans>>
      /\ store' = store /\ cas' = cas
  BY DEF Refuse, server
<1>4. "BUSY" \notin r.expected
  <2> HIDE DEF r
  <2> QED BY <1>2, RequestFacts DEF WellFormed, Expected
<1>5. Threw \in Results /\ Threw # Undecided /\ "BUSY" \in Statuses /\ 0 \in Nat
  BY DEF Threw, Undecided, Result, Results, Says, Statuses
<1>6. b \in Seq(Int)
  BY DEF Text
<1> HIDE DEF r, b
<1>7. ASSUME NEW t PROVE Outcome(r, Header("BUSY", 0, 0, 0, Len(b)), t) = Threw
  BY <1>4 DEF Outcome, Refused, Header
<1>8. a \in Seq(Units) /\ \A k : k.pc = "header" /\ k.r = r => HeaderDue("up", a, k, Threw)
  BY <1>5, <1>6, <1>7, PacketFacts, ZenonT(30)
<1> HIDE DEF a
<1>9. store' \in [DOMAIN store' -> Items] /\ cas' \in Nat
  BY <1>2, <1>3
<1> QED BY <1>1, <1>3, <1>5, <1>8, <1>9, AnswerStep, ZenonT(30) DEF r

\* A connection fails.
LEMMA LoseConnection == ASSUME MInv, NEW c \in Clients, Lose(c) PROVE MInv'
<1>1. /\ link[c] = "up" /\ link' = [link EXCEPT ![c] = "lost"] /\ requests' = [requests EXCEPT ![c] = <<>>]
      /\ UNCHANGED <<fd, call, given, server, due>>
  BY DEF Lose
<1>2. PICK n \in 0..Len(responses[c]) : responses' = [responses EXCEPT ![c] = SubSeq(@, 1, n)]
  BY ZenonT(30) DEF Lose
<1>3. orphans' = orphans \o requests[c] \/ orphans' = orphans
  BY SMTT(60) DEF Lose
<1>4. Types /\ responses[c] \in Seq(Units) /\ call[c] \in Calls /\ due[c] \in Results
      /\ InStep("up", requests[c], responses[c], call[c], due[c])
  BY <1>1 DEF MInv, Types
<1>5. SubSeq(responses[c], 1, n) \in Seq(Units) /\ <<>> \in Seq(Requests)
  BY <1>4, PrefixFacts
<1>6. orphans' \in Seq(Requests)
  <2>1. orphans \in Seq(Requests) /\ requests[c] \in Seq(Requests)
    BY <1>4 DEF Types
  <2>2. orphans \o requests[c] \in Seq(Requests)
    BY <2>1, ConcatFact, ZenonT(30)
  <2> QED BY <1>3, <2>1, <2>2, ZenonT(30)
<1>7. Types'
  BY <1>1, <1>2, <1>4, <1>5, <1>6 DEF Types, server
<1>8. InStep("lost", <<>>, SubSeq(responses[c], 1, n), call[c], due[c])
  BY <1>4, LoseStep
<1>9. InStep(link'[c], requests'[c], responses'[c], call'[c], due'[c])
  BY <1>1, <1>2, <1>4, <1>8, SMTT(60) DEF Types
<1> QED BY <1>1, <1>2, <1>4, <1>7, <1>9, OneClient, ZenonT(30) DEF Types

\* A request of a failed connection arrives.
LEMMA LateStep == ASSUME MInv, ServeLate PROVE MInv'
<1>1. PICK i \in DOMAIN orphans : /\ store' = KV!After(store, orphans[i], cas + 1) /\ cas' = cas + 1
                                  /\ orphans' = SubSeq(orphans, 1, i - 1) \o SubSeq(orphans, i + 1, Len(orphans))
                                  /\ UNCHANGED <<conn, requests, responses, call, given, due, counts>>
  BY ZenonT(30) DEF ServeLate
<1>2. orphans \in Seq(Requests) /\ orphans[i] \in Requests /\ i \in 1..Len(orphans)
  BY DEF MInv, Types
<1>3. store \in [DOMAIN store -> Items] /\ cas \in Nat /\ cas + 1 \in Nat
  BY DEF MInv, Types
<1>4. store' \in [DOMAIN store' -> Items] /\ cas' \in Nat
  BY <1>1, <1>2, <1>3, StoreFacts, RequestFacts, ZenonT(30)
<1>5. orphans' \in Seq(Requests)
  <2>1. /\ SubSeq(orphans, 1, i - 1) \in Seq(Requests)
        /\ SubSeq(orphans, i + 1, Len(orphans)) \in Seq(Requests)
    BY <1>2
  <2> QED BY <1>1, <2>1, ConcatFact
<1>6. Types'
  BY <1>1, <1>4, <1>5, SMTT(60) DEF MInv, Types, conn
<1> QED BY <1>1, <1>6 DEF MInv, conn

\* An idle client connects or quits.
LEMMA ConnectQuitStep == ASSUME MInv, NEW c \in Clients, connect(c) \/ quit(c) PROVE MInv'
<1>1. PICK l \in {"none", "up", "lost"} :
        /\ call[c] = Idle /\ link' = [link EXCEPT ![c] = l] /\ fd' = [fd EXCEPT ![c] = l # "none"]
        /\ responses' = [responses EXCEPT ![c] = <<>>]
        /\ UNCHANGED <<requests, call, given, server, orphans, due>>
  <2>1. Types /\ (call[c] = Idle => responses[c] = <<>>)
    BY DEF MInv, InStep, Quiet
  <2>2. responses[c] = <<>> => responses = [responses EXCEPT ![c] = <<>>]
    BY <2>1 DEF Types
  <2>3. CASE connect(c)
    BY <2>1, <2>2, <2>3, ZenonT(30) DEF connect
  <2>4. CASE /\ quit(c) /\ fd' = [fd EXCEPT ![c] = FALSE] /\ link' = [link EXCEPT ![c] = "none"]
             /\ responses' = [responses EXCEPT ![c] = <<>>]
    BY <2>4, ZenonT(30) DEF quit
  <2>5. CASE quit(c) /\ link[c] = "lost" /\ UNCHANGED <<conn, responses>>
    <3>1. link = [link EXCEPT ![c] = "lost"] /\ fd = [fd EXCEPT ![c] = TRUE]
      BY <2>1, <2>5 DEF Types
    <3> QED BY <2>1, <2>2, <2>5, <3>1, ZenonT(30) DEF quit, conn
  <2> QED BY <2>3, <2>4, <2>5 DEF quit
<1>2. Types /\ Quiet(requests[c], responses[c], due[c])
  BY <1>1, ZenonT(30) DEF MInv, InStep, Asked, Answered
<1>3. Types'
  <2>1. \A d \in Clients : fd'[d] <=> link'[d] # "none"
    BY <1>1, <1>2, ZenonT(30) DEF Types
  <2>2. fd' \in [Clients -> BOOLEAN] /\ link' \in [Clients -> {"none", "up", "lost"}] /\ responses' \in [Clients -> Seq(Units)]
    BY <1>1, <1>2 DEF Types
  <2> QED BY <1>1, <1>2, <2>1, <2>2 DEF Types, server
<1>4. InStep(link'[c], requests'[c], responses'[c], call'[c], due'[c])
  <2>1. requests'[c] = requests[c] /\ responses'[c] = <<>> /\ call'[c] = Idle /\ due'[c] = due[c]
    BY <1>1, <1>2 DEF Types
  <2> QED BY <1>2, <2>1 DEF InStep, Quiet
<1> QED BY <1>1, <1>2, <1>3, <1>4, OneClient, ZenonT(30) DEF Types

\* A method ends with nothing of its answer left.
LEMMA EndStep ==
  ASSUME MInv, NEW c \in Clients, NEW x \in Results, End(c, x), requests[c] = <<>>,
         responses' = [responses EXCEPT ![c] = <<>>], UNCHANGED <<conn, requests, server, orphans>>
  PROVE  MInv'
<1>1. Types /\ Idle \in Calls /\ Undecided \in Results
  BY DEF MInv, Calls, Results, Undecided, Result, Says
<1>2. call' = [call EXCEPT ![c] = Idle] /\ given' = [given EXCEPT ![c] = x] /\ due' = [due EXCEPT ![c] = Undecided]
  BY DEF End
<1>3. Types'
  BY <1>1, <1>2 DEF Types, conn, server
<1>4. InStep(link'[c], requests'[c], responses'[c], call'[c], due'[c])
  BY <1>1, <1>2 DEF Types, conn, InStep, Quiet
<1> QED BY <1>1, <1>2, <1>3, <1>4, OneClient, ZenonT(30) DEF Types, conn

\* A method begins (assert_conn_open, and the write of the request).
LEMMA CommandStep == ASSUME MInv, NEW c \in Clients, NEW r \in Requests, command(c, r) PROVE MInv'
<1>1. call[c] = Idle /\ UNCHANGED <<conn, responses, server, orphans>>
  BY SMTT(30) DEF command
<1>2. Types /\ Quiet(requests[c], responses[c], due[c])
  BY <1>1, ZenonT(30) DEF MInv, InStep, Asked, Answered
<1>3. CASE End(c, Threw) /\ UNCHANGED requests
  <2>1. Threw \in Results
    BY DEF Threw, Result, Results, Says
  <2>2. responses' = [responses EXCEPT ![c] = <<>>] /\ requests[c] = <<>>
    BY <1>1, <1>2 DEF Quiet, Types
  <2> QED BY <1>1, <1>3, <2>1, <2>2, EndStep, ZenonT(30)
<1>4. CASE /\ fd[c] /\ UNCHANGED <<given, due>>
           /\ requests' = IF link[c] = "up" THEN [requests EXCEPT ![c] = Append(@, r)] ELSE requests
           /\ call' = [call EXCEPT ![c] = [pc |-> "header", r |-> r, read |-> 0]]
  <2> DEFINE k == [pc |-> "header", r |-> r, read |-> 0]
  <2>1. k \in Calls /\ k.pc = "header" /\ k.read = 0 /\ k.r = r /\ k # Idle
    BY NewCallFacts DEF Idle
  <2> HIDE DEF k
  <2>2. call' = [call EXCEPT ![c] = k]
    BY <1>4 DEF k
  <2>3. Append(requests[c], r) = <<r>> /\ <<r>> \in Seq(Requests)
    BY <1>2 DEF Quiet
  <2>4. link[c] # "none" /\ link' = link /\ responses' = responses /\ due' = due /\ responses[c] = <<>>
        /\ due[c] = Undecided /\ requests[c] = <<>>
    BY <1>1, <1>2, <1>4 DEF Types, conn, Quiet
  <2>5. requests' = [requests EXCEPT ![c] = IF link[c] = "up" THEN <<r>> ELSE <<>>]
    BY <1>2, <1>4, <2>3, <2>4, ZenonT(30) DEF Types
  <2>6. Types'
    BY <1>1, <1>2, <1>4, <2>1, <2>2, <2>3, <2>4, <2>5 DEF Types, conn, server
  <2>7. requests'[c] = (IF link[c] = "up" THEN <<r>> ELSE <<>>) /\ call'[c] = k
    BY <1>2, <2>2, <2>5, SMTT(60) DEF Types
  <2>8. InStep(link'[c], requests'[c], responses'[c], call'[c], due'[c])
    BY <2>1, <2>4, <2>7 DEF InStep, Asked
  <2> QED BY <1>2, <2>2, <2>4, <2>5, <2>6, <2>8, OneClient, ZenonT(30) DEF Types
<1> QED BY <1>3, <1>4 DEF command, assert_conn_open

\* The connection ends before the n units of the answer that are read next.
LEMMA EofStep ==
  ASSUME MInv, NEW c \in Clients, NEW n \in Nat, call[c] # Idle, read_eof(c, n), UNCHANGED <<conn, requests, server, orphans>>
  PROVE  MInv'
<1>1. responses' = [responses EXCEPT ![c] = <<>>] /\ End(c, Threw) /\ link[c] = "lost"
  BY DEF read_eof
<1>2. requests[c] = <<>>
  BY <1>1, ZenonT(30) DEF MInv, InStep, Asked, Answered
<1>3. Threw \in Results
  BY SMTT(60) DEF Threw, Result, Results, Says
<1> QED BY <1>1, <1>2, <1>3, EndStep, ZenonT(30)

\* A call that has something to read has been answered.
LEMMA ReadingFacts ==
  ASSUME MInv, NEW c \in Clients, call[c].pc \in {"header", "body"}
  PROVE  /\ Types /\ call[c] # Idle /\ call[c] \in Calls /\ responses[c] \in Seq(Units) /\ due[c] \in Results
         /\ call[c].r \in Requests /\ call[c].read \in Nat
         /\ responses[c] # <<>> \/ call[c].pc = "body" =>
              /\ Answered(link[c], <<>>, responses[c], call[c], due[c])
              /\ requests[c] = <<>> /\ due[c] # Undecided
<1>1. Types /\ call[c] \in Calls /\ responses[c] \in Seq(Units) /\ due[c] \in Results
  BY DEF MInv, Types
<1>2. call[c] # Idle /\ call[c].r \in Requests /\ call[c].read \in Nat
  BY <1>1, CallFacts, SMTT(30)
<1>3. ASSUME responses[c] # <<>> \/ call[c].pc = "body"
      PROVE  Answered(link[c], requests[c], responses[c], call[c], due[c])
  BY <1>2, <1>3, ZenonT(30) DEF MInv, InStep, Asked
<1> QED BY <1>1, <1>2, <1>3 DEF Answered

\* A method reads a header (read_response_header).
LEMMA ResponseHeaderStep ==
  ASSUME MInv, NEW c \in Clients, response_header(c)
  PROVE  /\ MInv'
         /\ \/ read_eof(c, 1)
            \/ /\ UNCHANGED <<given, due>> /\ call[c] # Idle /\ due[c] # Undecided
               /\ call' = [call EXCEPT ![c] = [pc |-> "body", r |-> call[c].r, read |-> call[c].read, header |-> Head(responses[c])]]
<1>1. call[c].pc = "header" /\ UNCHANGED <<conn, requests, server, orphans>>
  BY DEF response_header
<1>2. /\ Types /\ call[c] # Idle /\ call[c] \in Calls /\ responses[c] \in Seq(Units) /\ due[c] \in Results
      /\ call[c].r \in Requests /\ call[c].read \in Nat
  BY <1>1, ReadingFacts
<1>3. CASE read_eof(c, 1)
  BY <1>1, <1>2, <1>3, EofStep
<1>4. CASE read_to(c, 1)
  <2> DEFINE s == responses[c]
             t == SubSeq(s, 2, Len(s))
             k == [pc |-> "body", r |-> call[c].r, read |-> call[c].read, header |-> s[1]]
  <2>1. Len(s) >= 1 /\ s # <<>> /\ Head(s) = s[1] /\ 1 + 1 = 2
    BY <1>2, <1>4 DEF read_to
  <2>2. responses' = [responses EXCEPT ![c] = t]
    BY <1>4, <2>1, SMTT(60) DEF read_to
  <2>3. /\ Answered(link[c], <<>>, s, call[c], due[c]) /\ requests[c] = <<>> /\ due[c] # Undecided
    BY <1>1, <2>1, ReadingFacts, SMTT(30)
  <2>4. s[1] \in Headers /\ Answered(link[c], <<>>, t, k, due[c])
    BY <1>1, <1>2, <2>1, <2>3, HeaderStep, ZenonT(30)
  <2>5. s[1].unit = "header"
    BY <2>4 DEF Headers
  <2>6. call' = [call EXCEPT ![c] = k] /\ UNCHANGED <<given, due>>
    <3>1. ~read_eof(c, 1)
      BY <1>2, <2>1 DEF read_eof
    <3>2. Head(responses[c]).unit = "header"
      BY <2>1, <2>5, ZenonT(30)
    <3> QED BY <2>1, <3>1, <3>2, ZenonT(30) DEF response_header
  <2>7. k \in Calls /\ k # Idle
    BY <1>2, <2>4, NewCallFacts, ZenonT(30) DEF Idle
  <2>12. t \in Seq(Units)
    BY <1>2, <2>1
  <2> HIDE DEF s, t, k
  <2>8. Types'
    BY <1>1, <1>2, <2>2, <2>6, <2>7, <2>12 DEF Types, conn, server
  <2>9. link'[c] = link[c] /\ requests'[c] = <<>> /\ responses'[c] = t /\ call'[c] = k /\ due'[c] = due[c]
    BY <1>1, <1>2, <2>2, <2>3, <2>6, SMTT(60) DEF Types, conn
  <2>10. InStep(link'[c], requests'[c], responses'[c], call'[c], due'[c])
    BY <2>4, <2>7, <2>9, SMTT(30) DEF InStep
  <2>11. MInv'
    BY <1>1, <1>2, <2>2, <2>6, <2>8, <2>10, OneClient, ZenonT(30) DEF Types, conn
  <2> QED BY <1>2, <2>1, <2>3, <2>6, <2>11 DEF s, k
<1> QED BY <1>3, <1>4 DEF response_header

\* A method reads a body: it goes on, or it returns what is due
\* (read_response_header and what follows it in every method).
LEMMA ResponseBodyStep ==
  ASSUME MInv, NEW c \in Clients, response_body(c)
  PROVE  /\ MInv'
         /\ \/ read_eof(c, call[c].header.body_size)
            \/ /\ UNCHANGED <<given, due>> /\ call[c] # Idle /\ due[c] # Undecided
               /\ call' = [call EXCEPT ![c] = [pc |-> "header", r |-> call[c].r, read |-> call[c].read + 1]]
            \/ call[c] # Idle /\ due[c] # Undecided /\ End(c, due[c])
<1> DEFINE h == call[c].header
           n == call[c].header.body_size
           s == responses[c]
           t == SubSeq(s, n + 1, Len(s))
           k == [pc |-> "header", r |-> call[c].r, read |-> call[c].read + 1]
<1>1. call[c].pc = "body" /\ UNCHANGED <<conn, requests, server, orphans>>
  BY SMTT(60) DEF response_body
<1>2. /\ Types /\ call[c] # Idle /\ call[c] \in Calls /\ s \in Seq(Units) /\ due[c] \in Results
      /\ call[c].r \in Requests /\ call[c].read \in Nat
      /\ Answered(link[c], <<>>, s, call[c], due[c]) /\ requests[c] = <<>> /\ due[c] # Undecided
  BY <1>1, ReadingFacts
<1>3. n \in Nat
  BY <1>1, <1>2, CallFacts
<1>4. CASE read_eof(c, n)
  BY <1>1, <1>2, <1>3, <1>4, EofStep
<1>5. CASE /\ read_to(c, n)
           /\ IF call[c].r.op = "Stat" /\ StatsMore(h) THEN call' = [call EXCEPT ![c] = k] /\ UNCHANGED <<given, due>>
              ELSE End(c, Returned(call[c], s))
  <2>1. Len(s) >= n /\ responses' = [responses EXCEPT ![c] = t]
    BY <1>5, SMTT(60) DEF read_to
  <2>2. IF call[c].r.op = "Stat" /\ StatsMore(h) THEN Answered(link[c], <<>>, t, k, due[c])
        ELSE t = <<>> /\ due[c] = Returned(call[c], s)
    BY <1>1, <1>2, <2>1, BodyStep, SMTT(60)
  <2>3. t \in Seq(Units)
    <3>1. n \in 0..Len(s)
      BY <1>2, <1>3, <2>1, SMTT(60)
    <3> HIDE DEF n
    <3> QED BY <1>2, <3>1, RestFacts, SMTT(30)
  <2>4. k \in Calls /\ k # Idle
    BY <1>2, NewCallFacts DEF Idle
  <2> HIDE DEF h, n, s, t, k
  <2>5. CASE call[c].r.op = "Stat" /\ StatsMore(h)
    <3>1. call' = [call EXCEPT ![c] = k] /\ UNCHANGED <<given, due>> /\ Answered(link[c], <<>>, t, k, due[c])
      BY <1>5, <2>2, <2>5
    <3>2. Types'
      BY <1>1, <1>2, <2>1, <2>3, <2>4, <3>1 DEF Types, conn, server
    <3>3. link'[c] = link[c] /\ requests'[c] = <<>> /\ responses'[c] = t /\ call'[c] = k /\ due'[c] = due[c]
      BY <1>1, <1>2, <2>1, <3>1, SMTT(60) DEF Types, conn
    <3>4. InStep(link'[c], requests'[c], responses'[c], call'[c], due'[c])
      BY <2>4, <3>1, <3>3, SMTT(30) DEF InStep
    <3>5. MInv'
      BY <1>1, <1>2, <2>1, <3>1, <3>2, <3>4, OneClient, ZenonT(30) DEF Types, conn
    <3> QED BY <1>2, <3>1, <3>5, SMTT(60) DEF k
  <2>6. CASE ~(call[c].r.op = "Stat" /\ StatsMore(h))
    <3>1. End(c, due[c]) /\ t = <<>>
      BY <1>5, <2>2, <2>6, ZenonT(30)
    <3>2. MInv'
      BY <1>1, <1>2, <2>1, <3>1, EndStep, ZenonT(60)
    <3> QED BY <1>2, <3>1, <3>2
  <2> QED BY <2>5, <2>6
<1>6. response_body(c) => read_eof(c, n) \/
        /\ read_to(c, n)
        /\ IF call[c].r.op = "Stat" /\ StatsMore(h) THEN call' = [call EXCEPT ![c] = k] /\ UNCHANGED <<given, due>>
           ELSE End(c, Returned(call[c], s))
  BY DEF response_body, Returned
<1> QED BY <1>4, <1>5, <1>6

\* Every step keeps the invariant.
LEMMA MInvStep == MInv /\ [Next]_vars => MInv'
<1> SUFFICES ASSUME MInv, [Next]_vars PROVE MInv'
  OBVIOUS
<1>1. CASE UNCHANGED vars
  BY <1>1 DEF MInv, Types, vars, conn, server
<1>2. CASE Next
  BY <1>2, ConnectQuitStep, CommandStep, ResponseHeaderStep, ResponseBodyStep, ServeStep, RefuseStep,
     LoseConnection, LateStep DEF Next, Step
<1> QED BY <1>1, <1>2

\* For any number of clients, keys, calls and failures: nothing of one call is
\* left for the next one on a connection (read_response_header, stats).
THEOREM StreamStaysInSync == Spec => []StreamInSync
<1>1. MInv => StreamInSync
  BY SMTT(60) DEF MInv, InStep, Quiet, StreamInSync
<1> QED BY <1>1, MInvInit, MInvStep, PTL DEF Spec

-----------------------------------------------------------------------------
(* The client implements the store *)

Pending(k, x) ==
  IF k = Idle THEN [phase |-> "none"]
  ELSE IF x # Undecided THEN [phase |-> "effective", result |-> x]
  ELSE [phase |-> "called", r |-> k.r]

\* The variables pending and broken of the store.
PendingMap == [c \in Clients |-> Pending(call[c], due[c])]

Broken == {c \in Clients : link[c] # "up"}

\* The steps of the store in terms of these: a call begins.
LEMMA MapInvoke ==
  ASSUME NEW c \in Clients, NEW r \in Requests, PendingMap[c] = [phase |-> "none"],
         PendingMap' = [PendingMap EXCEPT ![c] = [phase |-> "called", r |-> r]],
         Broken' = Broken, UNCHANGED <<store, cas, given, orphans>>
  PROVE  KV!Invoke(c, r)
  BY DEF KV!Invoke, KV!NoCall, PendingMap, Pending, Broken

\* It takes effect.
LEMMA MapEffect ==
  ASSUME NEW c \in Clients, NEW r \in Requests, PendingMap[c] = [phase |-> "called", r |-> r], c \notin Broken,
         store' = KV!After(store, r, cas + 1), cas' = cas + 1,
         PendingMap' = [PendingMap EXCEPT ![c] = [phase |-> "effective", result |-> KV!Meaning(store, r)]],
         Broken' = Broken, UNCHANGED <<given, orphans>>
  PROVE  KV!Effect(c)
<1>1. PendingMap[c].phase = "called" /\ PendingMap[c].r = r
  OBVIOUS
<1> QED BY <1>1, ZenonT(60) DEF KV!Effect, PendingMap, Pending, Broken

\* The server refuses it.
LEMMA MapRefusal ==
  ASSUME NEW c \in Clients, NEW r \in Requests, PendingMap[c] = [phase |-> "called", r |-> r], c \notin Broken,
         PendingMap' = [PendingMap EXCEPT ![c] = [phase |-> "effective", result |-> Threw]],
         Broken' = Broken, UNCHANGED <<store, cas, given, orphans>>
  PROVE  KV!Refusal(c)
<1>1. PendingMap[c].phase = "called" /\ KV!Threw = Threw
  BY DEF KV!Threw, Threw, KV!Result, Result
<1> QED BY <1>1, ZenonT(60) DEF KV!Refusal, PendingMap, Pending, Broken

\* It returns.
LEMMA MapReturn ==
  ASSUME NEW c \in Clients, NEW x, PendingMap[c] = [phase |-> "effective", result |-> x],
         PendingMap' = [PendingMap EXCEPT ![c] = [phase |-> "none"]], given' = [given EXCEPT ![c] = x],
         Broken' = Broken, UNCHANGED <<store, cas, orphans>>
  PROVE  KV!Return(c)
<1>1. PendingMap[c].phase = "effective" /\ PendingMap[c].result = x
  OBVIOUS
<1> QED BY <1>1, ZenonT(30) DEF KV!Return, KV!NoCall, PendingMap, Pending, Broken

\* It throws.
LEMMA MapThrow ==
  ASSUME NEW c \in Clients, c \in Broken, PendingMap' = [PendingMap EXCEPT ![c] = [phase |-> "none"]],
         given' = [given EXCEPT ![c] = Threw], Broken' = Broken, UNCHANGED <<store, cas, orphans>>
  PROVE  KV!Throw(c)
<1>1. KV!Threw = Threw
  BY DEF KV!Threw, Threw, KV!Result, Result
<1> QED BY <1>1, ZenonT(30) DEF KV!Throw, KV!NoCall, PendingMap, Pending, Broken

\* A client connects.
LEMMA MapConnect ==
  ASSUME NEW c \in Clients, c \in Broken, PendingMap[c] = [phase |-> "none"], PendingMap' = PendingMap,
         Broken' = Broken \ {c}, UNCHANGED <<store, cas, given, orphans>>
  PROVE  KV!Connect(c)
  BY Zenon, ZenonT(30) DEF KV!Connect, KV!NoCall, PendingMap, Pending, Broken

\* A connection fails, or is closed.
LEMMA MapFail ==
  ASSUME NEW c \in Clients, c \notin Broken, Broken' = Broken \cup {c}, PendingMap' = PendingMap,
         orphans' = orphans \/ (PendingMap[c].phase = "called" /\ orphans' = Append(orphans, PendingMap[c].r)),
         UNCHANGED <<store, cas, given>>
  PROVE  KV!Fail(c)
<1>1. \E sent \in BOOLEAN : orphans' = IF PendingMap[c].phase = "called" /\ sent
                                       THEN Append(orphans, PendingMap[c].r) ELSE orphans
  BY ZenonT(30)
<1> QED BY <1>1, ZenonT(30) DEF KV!Fail, PendingMap, Pending, Broken

\* The step of one client changes its call only.
LEMMA MapOne ==
  ASSUME NEW c \in Clients, \A d \in Clients : d # c => call'[d] = call[d] /\ due'[d] = due[d]
  PROVE  /\ PendingMap' = [PendingMap EXCEPT ![c] = Pending(call'[c], due'[c])]
         /\ PendingMap[c] = Pending(call[c], due[c])
<1>1. \A d \in Clients : d # c => Pending(call'[d], due'[d]) = Pending(call[d], due[d])
  BY Zenon, ZenonT(30)
<1>2. PendingMap' = [d \in Clients |-> Pending(call'[d], due'[d])]
  BY Zenon, ZenonT(30) DEF PendingMap
<1> QED BY <1>1, <1>2, ZenonT(30) DEF PendingMap

Mapped == KV!Next \/ UNCHANGED <<store, cas, Broken, PendingMap, given, orphans>>

\* Connecting is a step of the store if the connection is usable.
LEMMA ConnectMapped == ASSUME MInv, NEW c \in Clients, connect(c) PROVE Mapped
<1>1. PICK l \in {"up", "lost", "none"} :
        /\ call[c] = Idle /\ ~fd[c] /\ link' = [link EXCEPT ![c] = l]
        /\ UNCHANGED <<call, given, store, cas, orphans, due>>
  BY ZenonT(30) DEF connect, server
<1>2. link \in [Clients -> {"none", "up", "lost"}] /\ link[c] = "none"
  BY <1>1 DEF MInv, Types
<1>3. PendingMap' = PendingMap /\ PendingMap[c] = [phase |-> "none"]
  BY <1>1 DEF PendingMap, Pending
<1>4. CASE l = "up"
  <2>1. c \in Broken /\ Broken' = Broken \ {c}
    BY <1>1, <1>2, <1>4 DEF Broken
  <2> QED BY <1>1, <1>3, <2>1, MapConnect, ZenonT(30) DEF Mapped, KV!Next
<1>5. CASE l # "up"
  <2>1. Broken' = Broken
    BY <1>1, <1>2, <1>5 DEF Broken
  <2> QED BY <1>1, <1>3, <2>1 DEF Mapped
<1> QED BY <1>4, <1>5

\* Closing a connection is the failure of it, as far as the store goes.
LEMMA QuitMapped == ASSUME MInv, NEW c \in Clients, quit(c) PROVE Mapped
<1>1. call[c] = Idle /\ UNCHANGED <<call, given, store, cas, orphans, due>>
  BY DEF quit, server
<1>2. link \in [Clients -> {"none", "up", "lost"}]
  BY DEF MInv, Types
<1>3. PendingMap' = PendingMap
  BY <1>1 DEF PendingMap, Pending
<1>4. CASE UNCHANGED link
  BY <1>1, <1>3, <1>4 DEF Mapped, Broken
<1>5. CASE link' = [link EXCEPT ![c] = "none"]
  <2>1. CASE link[c] = "up"
    <3>1. c \notin Broken /\ Broken' = Broken \cup {c}
      BY <1>2, <1>5, <2>1 DEF Broken
    <3> QED BY <1>1, <1>3, <3>1, MapFail DEF Mapped, KV!Next
  <2>2. CASE link[c] # "up"
    <3>1. Broken' = Broken
      BY <1>2, <1>5, <2>2 DEF Broken
    <3> QED BY <1>1, <1>3, <3>1 DEF Mapped
  <2> QED BY <2>1, <2>2, SMTT(30)
<1> QED BY <1>4, <1>5 DEF quit, conn

\* A method that throws on a connection that is not usable.
LEMMA ThrowMapped ==
  ASSUME MInv, NEW c \in Clients, End(c, Threw), link[c] # "up", UNCHANGED <<link, store, cas, orphans>>
  PROVE  Mapped
<1>1. call' = [call EXCEPT ![c] = Idle] /\ given' = [given EXCEPT ![c] = Threw] /\ due' = [due EXCEPT ![c] = Undecided]
  BY DEF End
<1>2. call \in [Clients -> Calls] /\ due \in [Clients -> Results]
  BY DEF MInv, Types
<1>3. call'[c] = Idle /\ \A d \in Clients : d # c => call'[d] = call[d] /\ due'[d] = due[d]
  BY <1>1, <1>2
<1>4. PendingMap' = [PendingMap EXCEPT ![c] = [phase |-> "none"]]
  BY <1>3, MapOne, ZenonT(30) DEF Pending
<1>5. c \in Broken /\ Broken' = Broken
  BY DEF Broken
<1> QED BY <1>1, <1>4, <1>5, MapThrow, ZenonT(30) DEF Mapped, KV!Next

\* A method begins.
LEMMA CommandMapped == ASSUME MInv, NEW c \in Clients, NEW r \in Requests, command(c, r) PROVE Mapped
<1>1. call[c] = Idle /\ UNCHANGED <<link, store, cas, orphans>>
  BY DEF command, conn, server
<1>2. /\ call \in [Clients -> Calls] /\ due[c] = Undecided /\ (~fd[c] => link[c] = "none")
  BY <1>1 DEF MInv, Types, InStep, Quiet
<1>3. CASE End(c, Threw) /\ (~fd[c] \/ link[c] = "lost")
  BY <1>1, <1>2, <1>3, ThrowMapped
<1>4. CASE call' = [call EXCEPT ![c] = [pc |-> "header", r |-> r, read |-> 0]] /\ UNCHANGED <<given, due>>
  <2> DEFINE k == [pc |-> "header", r |-> r, read |-> 0]
  <2>1. k # Idle /\ k.r = r
    BY SMTT(60) DEF Idle
  <2>2. call'[c] = k /\ due'[c] = Undecided /\ \A d \in Clients : d # c => call'[d] = call[d] /\ due'[d] = due[d]
    BY <1>2, <1>4, SMTT(30)
  <2> HIDE DEF k
  <2>3. PendingMap' = [PendingMap EXCEPT ![c] = [phase |-> "called", r |-> r]] /\ PendingMap[c] = [phase |-> "none"]
    BY <1>1, <2>1, <2>2, MapOne, ZenonT(30) DEF Pending
  <2>4. Broken' = Broken
    BY <1>1 DEF Broken
  <2>5. KV!Invoke(c, r)
    BY <1>1, <1>4, <2>3, <2>4, MapInvoke, ZenonT(30)
  <2> QED BY <2>5 DEF Mapped, KV!Next
<1> QED BY <1>3, <1>4 DEF command, assert_conn_open

\* The server executes or refuses a request: the call takes effect.
LEMMA ServeMapped == ASSUME MInv, NEW c \in Clients, Serve(c) \/ Refuse(c) PROVE Mapped
<1> DEFINE r == call[c].r
<1>1. link[c] = "up" /\ requests[c] # <<>>
  BY ZenonT(30) DEF Serve, Refuse
<1>2. call[c] # Idle /\ r \in Requests /\ Head(requests[c]) = r /\ due[c] = Undecided /\ due \in [Clients -> Results]
      /\ store \in [DOMAIN store -> Items]
  BY <1>1, ServingFacts DEF MInv, Types
<1>3. c \notin Broken /\ PendingMap[c] = [phase |-> "called", r |-> r]
  BY <1>1, <1>2 DEF Broken, PendingMap, Pending
<1>4. CASE Serve(c)
  <2> DEFINE x == KV!Meaning(store, r)
  <2>1. /\ store' = KV!After(store, r, cas + 1) /\ cas' = cas + 1
        /\ due' = [due EXCEPT ![c] = x] /\ UNCHANGED <<link, call, given, orphans>>
    BY <1>2, <1>4, ZenonT(30) DEF Serve, conn
  <2>2. x # Undecided
    BY <1>2, RequestFacts, MeaningFacts
  <2> HIDE DEF x, r
  <2>3. call'[c] = call[c] /\ due'[c] = x /\ \A d \in Clients : d # c => call'[d] = call[d] /\ due'[d] = due[d]
    BY <1>2, <2>1
  <2>4. PendingMap' = [PendingMap EXCEPT ![c] = [phase |-> "effective", result |-> x]]
    BY <1>2, <2>2, <2>3, MapOne, ZenonT(30) DEF Pending
  <2>5. Broken' = Broken
    BY <2>1 DEF Broken
  <2>6. KV!Effect(c)
    BY <1>2, <1>3, <2>1, <2>4, <2>5, MapEffect, ZenonT(30) DEF x
  <2> QED BY <2>6 DEF Mapped, KV!Next
<1>5. CASE Refuse(c)
  <2>1. due' = [due EXCEPT ![c] = Threw] /\ UNCHANGED <<link, call, given, store, cas, orphans>>
    BY <1>5 DEF Refuse, conn, server
  <2>2. Threw # Undecided
    BY DEF Threw, Undecided, Result
  <2> HIDE DEF r
  <2>3. call'[c] = call[c] /\ due'[c] = Threw /\ \A d \in Clients : d # c => call'[d] = call[d] /\ due'[d] = due[d]
    BY <1>2, <2>1, SMTT(30)
  <2>4. PendingMap' = [PendingMap EXCEPT ![c] = [phase |-> "effective", result |-> Threw]]
    BY <1>2, <2>2, <2>3, MapOne, ZenonT(30) DEF Pending
  <2>5. Broken' = Broken
    BY <2>1 DEF Broken
  <2>6. KV!Refusal(c)
    BY <1>2, <1>3, <2>1, <2>4, <2>5, MapRefusal, ZenonT(30)
  <2> QED BY <2>6 DEF Mapped, KV!Next
<1> QED BY <1>4, <1>5

\* A connection fails: what was asked may still arrive.
LEMMA LoseMapped == ASSUME MInv, NEW c \in Clients, Lose(c) PROVE Mapped
<1>1. link[c] = "up" /\ link' = [link EXCEPT ![c] = "lost"] /\ UNCHANGED <<call, given, store, cas, due>>
  BY DEF Lose, server
<1>2. orphans' = orphans \/ orphans' = orphans \o requests[c]
  BY SMTT(60) DEF Lose
<1>3. link \in [Clients -> {"none", "up", "lost"}] /\ orphans \in Seq(Requests)
  BY DEF MInv, Types
<1>4. PendingMap' = PendingMap /\ c \notin Broken /\ Broken' = Broken \cup {c}
  BY <1>1, <1>3, SMTT(30) DEF PendingMap, Pending, Broken
<1>5. CASE requests[c] = <<>>
  <2>1. orphans' = orphans
    BY <1>2, <1>3, <1>5, SMTT(30)
  <2> QED BY <1>1, <1>4, <2>1, MapFail, ZenonT(30) DEF Mapped, KV!Next
<1>6. CASE requests[c] # <<>>
  <2> DEFINE r == call[c].r
  <2>1. call[c] # Idle /\ r \in Requests /\ requests[c] = <<r>> /\ due[c] = Undecided
    BY <1>1, <1>6, ServingFacts, SMTT(30)
  <2>2. PendingMap[c] = [phase |-> "called", r |-> r]
    BY <2>1 DEF PendingMap, Pending
  <2> HIDE DEF r
  <2>3. PendingMap[c].phase = "called" /\ PendingMap[c].r = r
    BY <2>2, SMTT(30)
  <2>4. orphans \o <<r>> = Append(orphans, r)
    BY <1>3, <2>1
  <2>5. orphans' = orphans \/ orphans' = Append(orphans, PendingMap[c].r)
    BY <1>2, <2>1, <2>3, <2>4, ZenonT(30)
  <2>6. UNCHANGED <<store, cas, given>>
    BY <1>1
  <2>7. KV!Fail(c)
    BY <1>4, <2>3, <2>5, <2>6, MapFail
  <2> QED BY <2>7, ZenonT(30) DEF Mapped, KV!Next
<1> QED BY <1>5, <1>6

\* A request of a failed connection arrives.
LEMMA LateMapped == ASSUME MInv, ServeLate PROVE Mapped
<1>1. PICK i \in DOMAIN orphans : /\ store' = KV!After(store, orphans[i], cas + 1) /\ cas' = cas + 1
                                  /\ orphans' = SubSeq(orphans, 1, i - 1) \o SubSeq(orphans, i + 1, Len(orphans))
                                  /\ UNCHANGED <<conn, requests, responses, call, given, due, counts>>
  BY ZenonT(60) DEF ServeLate
<1>2. PendingMap' = PendingMap /\ Broken' = Broken
  BY <1>1 DEF PendingMap, Pending, Broken, conn
<1>3. KV!LateEffect(i)
  BY <1>1, <1>2, ZenonT(30) DEF KV!LateEffect, PendingMap, Pending, Broken
<1> QED BY <1>3 DEF Mapped, KV!Next

\* A method reads a part of its answer, or the last part of it and returns.
LEMMA ReadMapped == ASSUME MInv, NEW c \in Clients, Step(c) PROVE Mapped
<1>1. UNCHANGED <<link, store, cas, orphans>>
  BY DEF Step, response_header, response_body, conn, server
<1>2. call \in [Clients -> Calls] /\ due \in [Clients -> Results] /\ call[c] # Idle /\ call[c].r \in Requests
      /\ call[c].read \in Nat
  <2>1. call[c].pc \in {"header", "body"}
    BY DEF Step, response_header, response_body
  <2> QED BY <2>1, ReadingFacts, SMTT(60) DEF Types
<1>3. Broken' = Broken
  BY <1>1 DEF Broken
<1>4. CASE \E n : read_eof(c, n)
  <2>1. End(c, Threw) /\ link[c] # "up"
    BY <1>4 DEF read_eof
  <2> QED BY <1>1, <2>1, ThrowMapped
<1>5. CASE /\ UNCHANGED <<given, due>> /\ due[c] # Undecided
           /\ \E k : k # Idle /\ call' = [call EXCEPT ![c] = k]
  <2>1. call'[c] # Idle /\ due'[c] = due[c] /\ \A d \in Clients : d # c => call'[d] = call[d] /\ due'[d] = due[d]
    BY <1>2, <1>5, SMTT(60)
  <2>2. PendingMap' = PendingMap
    <3>1. Pending(call'[c], due'[c]) = Pending(call[c], due[c])
      BY <1>2, <1>5, <2>1, ZenonT(60) DEF Pending
    <3> QED BY <2>1, <3>1, MapOne, SMTT(60) DEF PendingMap
  <2> QED BY <1>1, <1>3, <1>5, <2>2 DEF Mapped
<1>6. CASE due[c] # Undecided /\ End(c, due[c])
  <2>1. /\ call' = [call EXCEPT ![c] = Idle] /\ given' = [given EXCEPT ![c] = due[c]]
        /\ due' = [due EXCEPT ![c] = Undecided]
    BY <1>6 DEF End
  <2>2. call'[c] = Idle /\ \A d \in Clients : d # c => call'[d] = call[d] /\ due'[d] = due[d]
    BY <1>2, <2>1, SMTT(30)
  <2>3. PendingMap' = [PendingMap EXCEPT ![c] = [phase |-> "none"]]
        /\ PendingMap[c] = [phase |-> "effective", result |-> due[c]]
    BY <1>2, <1>6, <2>2, MapOne, ZenonT(30) DEF Pending
  <2>4. KV!Return(c)
    BY <1>1, <1>3, <2>1, <2>3, MapReturn, ZenonT(30)
  <2> QED BY <2>4 DEF Mapped, KV!Next
<1>7. CASE response_header(c)
  <2> DEFINE k == [pc |-> "body", r |-> call[c].r, read |-> call[c].read, header |-> Head(responses[c])]
  <2>1. k # Idle
    BY DEF Idle
  <2>2. read_eof(c, 1) \/ (UNCHANGED <<given, due>> /\ due[c] # Undecided /\ call' = [call EXCEPT ![c] = k])
    BY <1>7, ResponseHeaderStep
  <2> HIDE DEF k
  <2> QED BY <1>4, <1>5, <2>1, <2>2, SMTT(30)
<1>8. CASE response_body(c)
  <2> DEFINE k == [pc |-> "header", r |-> call[c].r, read |-> call[c].read + 1]
             n == call[c].header.body_size
  <2>1. k # Idle
    BY ZenonT(30) DEF Idle
  <2>2. \/ read_eof(c, n)
        \/ UNCHANGED <<given, due>> /\ due[c] # Undecided /\ call' = [call EXCEPT ![c] = k]
        \/ due[c] # Undecided /\ End(c, due[c])
    BY <1>8, ResponseBodyStep
  <2> HIDE DEF k, n
  <2> QED BY <1>4, <1>5, <1>6, <2>1, <2>2, SMTT(30)
<1> QED BY <1>7, <1>8, SMTT(60) DEF Step

\* Every step of the client is a step of the store, or changes nothing of it.
LEMMA StepMapped == MInv /\ [Next]_vars => [KV!Next]_(KV!vars)
<1> SUFFICES ASSUME MInv, [Next]_vars PROVE [KV!Next]_(KV!vars)
  BY SMTT(60)
<1>1. CASE UNCHANGED vars
  BY <1>1 DEF vars, conn, server, KV!vars
<1>2. CASE Next
  <2>1. Mapped
    BY <1>2, ConnectMapped, QuitMapped, CommandMapped, ReadMapped, ServeMapped, LoseMapped, LateMapped DEF Next
  <2> QED BY <2>1, ZenonT(30) DEF Mapped, KV!vars, PendingMap, Pending, Broken
<1> QED BY <1>1, <1>2

\* An unconnected client without a call is the store's client at the start.
LEMMA InitMapped == Init => KV!Init
<1> SUFFICES ASSUME Init PROVE KV!Init
  OBVIOUS
<1>1. \A k \in DOMAIN store : store[k].cas <= cas
  BY DEF Init
<1>2. {c \in Clients : link[c] # "up"} = Clients
  BY SMTT(60) DEF Init
<1>3. [c \in Clients |-> IF call[c] = Idle THEN [phase |-> "none"]
                         ELSE IF due[c] # Undecided THEN [phase |-> "effective", result |-> due[c]]
                         ELSE [phase |-> "called", r |-> call[c].r]] = [c \in Clients |-> [phase |-> "none"]]
  BY SMTT(60) DEF Init
<1>4. given = [c \in Clients |-> KV!Result("done", 0, 0)] /\ orphans = <<>>
  BY DEF Init, Done, Result, KV!Result
<1> QED BY <1>1, <1>2, <1>3, <1>4, ZenonT(30) DEF KV!Init, KV!NoCall

\* For any number of clients, keys, calls and failures the client implements
\* the store of KeyValue: each call takes effect at most once and returns what
\* it meant when it did, and it throws only if the server refused or the
\* connection failed (every method of Memcache::Client).
THEOREM ClientImplementsStore == Spec => ImplementsStore
<1> QED BY MInvInit, MInvStep, InitMapped, StepMapped, PTL DEF Spec, ImplementsStore, KV!Spec
=============================================================================
