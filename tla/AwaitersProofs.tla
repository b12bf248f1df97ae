--------------------------- MODULE AwaitersProofs ---------------------------
(***************************************************************************)
(* For any number of coroutines, any sizes of reads, writes and messages   *)
(* and any capacity of the socket: the streams of Base are intact, every   *)
(* arrival at a shared socket has one owner, and the reads and writes of   *)
(* Buffer deliver what they were asked for.                                *)
(***************************************************************************)
EXTENDS Awaiters, TLAPS

-----------------------------------------------------------------------------
(* Sequences *)

\* The first k elements are taken off a sequence (a read from a socket).
LEMMA DropFacts ==
  ASSUME NEW S, NEW s \in Seq(S), NEW k \in 0..Len(s)
  PROVE  /\ SubSeq(s, k + 1, Len(s)) \in Seq(S)
         /\ Len(SubSeq(s, k + 1, Len(s))) = Len(s) - k
         /\ \A i \in 1..(Len(s) - k) : SubSeq(s, k + 1, Len(s))[i] = s[k + i]
  OBVIOUS

\* They are added to another one (a read into an evbuffer, or a write).
LEMMA TakeFacts ==
  ASSUME NEW S, NEW s \in Seq(S), NEW t \in Seq(S), NEW k \in 0..Len(s)
  PROVE  /\ t \o SubSeq(s, 1, k) \in Seq(S)
         /\ Len(t \o SubSeq(s, 1, k)) = Len(t) + k
  OBVIOUS

\* A sequence is continued by k elements that are given by their indices.
LEMMA ContinueFacts ==
  ASSUME NEW S, NEW s \in Seq(S), NEW k \in Nat, NEW f, f \in [1..k -> S]
  PROVE  /\ s \o f \in Seq(S) /\ Len(s \o f) = Len(s) + k
         /\ \A i \in 1..Len(s) : (s \o f)[i] = s[i]
         /\ \A i \in 1..k : (s \o f)[Len(s) + i] = f[i]
<1>1. f \in Seq(S) /\ Len(f) = k
  OBVIOUS
<1> QED BY <1>1

\* An element is appended to a sequence: the elements are the old ones and it.
LEMMA AppendRange ==
  ASSUME NEW S, NEW s \in Seq(S), NEW x \in S, NEW t, t = Append(s, x)
  PROVE  {t[i] : i \in 1..Len(t)} = {s[i] : i \in 1..Len(s)} \cup {x}
<1>1. /\ Len(t) = Len(s) + 1 /\ Len(s) \in Nat /\ t[Len(s) + 1] = x
      /\ \A i \in 1..Len(s) : t[i] = s[i]
  OBVIOUS
<1>2. 1..Len(t) = 1..Len(s) \cup {Len(s) + 1}
  BY <1>1
<1> QED BY <1>1, <1>2

-----------------------------------------------------------------------------
(* The reads and writes of Base *)

\* An awaiter of StreamIO: size bytes are left of want, and its event is added
\* exactly while it is suspended; when it is resumed without an error nothing
\* is left.
AwaiterRecords == [pc : {"idle", "suspended", "resumed", "threw"}, event : BOOLEAN,
                   data : Nat, size : Nat, want : Nat, err : BOOLEAN, eof : BOOLEAN]
AwaiterOK(aw) ==
  /\ aw \in AwaiterRecords
  /\ aw.size <= aw.want /\ ~aw.eof
  /\ aw.event => aw.pc = "suspended"
  /\ aw.pc = "suspended" => aw.data = aw.want - aw.size
  /\ aw.pc = "resumed" /\ ~aw.err => aw.size = 0

\* The inductive invariant: completed reads, memory, socket and the bytes that
\* are left to write are one after the other the bytes that were given.
StreamInv ==
  /\ pipe \in Seq(Nat) /\ given \in Nat /\ taken \in Nat
  /\ AwaiterOK(rd) /\ AwaiterOK(wr)
  /\ rd.pc # "idle" => mem \in [1..rd.want -> Nat]
  /\ taken + St!Fetched + Len(pipe) = St!Sent
  /\ \A i \in 1..St!Fetched : mem[i] = taken + i
  /\ \A i \in 1..Len(pipe) : pipe[i] = taken + St!Fetched + i

\* It says what StreamIntact does.
LEMMA StreamInvIntact == StreamInv => St!StreamIntact
  BY DEF StreamInv, AwaiterOK, AwaiterRecords, St!StreamIntact, St!Fetched, St!Sent

\* It holds when nothing was written.
LEMMA StreamInvInit == St!Init => StreamInv
  BY DEF St!Init, St!Idle, StreamInv, AwaiterOK, AwaiterRecords, St!Fetched, St!Sent

\* What read(2) may return: an error, "again", or as many bytes as it can.
LEMMA ReadResults ==
  ASSUME NEW n \in Nat, NEW k \in St!read_result(n), pipe \in Seq(Nat)
  PROVE  k = St!Error \/ k = St!Again \/ (k \in 0..n /\ k <= Len(pipe) /\ k # St!Error /\ k # St!Again)
  BY DEF St!read_result, St!Error, St!Again, St!Least

\* What write(2) may return.
LEMMA WriteResults ==
  ASSUME NEW n \in Nat, NEW k \in St!write_result(n), pipe \in Seq(Nat)
  PROVE  k = St!Error \/ k = St!Again \/ (k \in 0..n /\ k # St!Error /\ k # St!Again)
  BY CapAssumption DEF St!write_result, St!Error, St!Again, St!Least

\* An awaiter waits for the rest of its bytes.
LEMMA AdvanceFacts ==
  ASSUME NEW aw \in AwaiterRecords, NEW k \in 0..aw.size, aw.size <= aw.want, aw.data = aw.want - aw.size, ~aw.eof
  PROVE  LET a == St!Advance(aw, k)
         IN  AwaiterOK(a) /\ a.pc = "suspended" /\ a.want = aw.want /\ a.size = aw.size - k
<1> DEFINE d == aw.data + k
           z == aw.size - k
<1>1. d \in Nat /\ z \in Nat /\ aw.want \in Nat /\ z <= aw.want /\ d = aw.want - z
  BY DEF AwaiterRecords
<1>2. St!Advance(aw, k) = [aw EXCEPT !.pc = "suspended", !.event = TRUE, !.data = d, !.size = z]
  BY Zenon DEF St!Advance
<1> HIDE DEF d, z
<1> DEFINE a == St!Advance(aw, k)
<1>3. a \in AwaiterRecords /\ a.pc = "suspended" /\ a.want = aw.want /\ a.size = z /\ a.data = d
  BY <1>1, <1>2, ZenonT(60) DEF AwaiterRecords
<1>4. ~a.eof
  BY <1>1, <1>2, Zenon DEF AwaiterRecords
<1> HIDE DEF a
<1>5. AwaiterOK(a)
  BY <1>1, <1>3, <1>4, Zenon DEF AwaiterOK
<1> QED BY <1>3, <1>5, Zenon DEF a, z

\* What an awaiter becomes after an attempt that moved nothing.
LEMMA FailFacts ==
  ASSUME NEW aw \in AwaiterRecords, aw.size <= aw.want, aw.data = aw.want - aw.size, ~aw.eof, ~aw.event,
         NEW a, \/ a = [aw EXCEPT !.pc = "threw"]
                \/ a = [aw EXCEPT !.pc = "resumed", !.err = TRUE]
                \/ a = [aw EXCEPT !.event = TRUE] /\ aw.pc = "suspended"
  PROVE  AwaiterOK(a) /\ a.pc # "idle" /\ a.want = aw.want /\ a.size = aw.size
<1>1. CASE a = [aw EXCEPT !.pc = "threw"]
  <2>1. a \in AwaiterRecords /\ a.pc = "threw" /\ a.want = aw.want /\ a.size = aw.size /\ ~a.eof /\ ~a.event
    BY <1>1, Zenon DEF AwaiterRecords
  <2> QED BY <2>1, Zenon DEF AwaiterOK
<1>2. CASE a = [aw EXCEPT !.pc = "resumed", !.err = TRUE]
  <2>1. /\ a \in AwaiterRecords /\ a.pc = "resumed" /\ a.err /\ a.want = aw.want /\ a.size = aw.size
        /\ ~a.eof /\ ~a.event
    BY <1>2, ZenonT(30) DEF AwaiterRecords
  <2> QED BY <2>1, Zenon DEF AwaiterOK
<1>3. CASE a = [aw EXCEPT !.event = TRUE] /\ aw.pc = "suspended"
  <2>1. /\ a \in AwaiterRecords /\ a.pc = "suspended" /\ a.want = aw.want /\ a.size = aw.size
        /\ a.data = aw.data /\ ~a.eof
    BY <1>3, ZenonT(30) DEF AwaiterRecords
  <2> QED BY <2>1, Zenon DEF AwaiterOK
<1> QED BY <1>1, <1>2, <1>3, Zenon

\* What it becomes after one that moved all the rest.
LEMMA DoneFacts ==
  ASSUME NEW aw \in AwaiterRecords, ~aw.eof, ~aw.event
  PROVE  LET a == [aw EXCEPT !.pc = "resumed", !.size = 0]
         IN  AwaiterOK(a) /\ a.pc # "idle" /\ a.want = aw.want /\ a.size = 0
<1> DEFINE a == [aw EXCEPT !.pc = "resumed", !.size = 0]
<1>1. a \in AwaiterRecords /\ a.pc = "resumed" /\ a.want = aw.want /\ a.size = 0 /\ ~a.eof /\ ~a.event
  BY ZenonT(30) DEF AwaiterRecords
<1>2. 0 <= aw.want
  BY DEF AwaiterRecords
<1> HIDE DEF a
<1>3. AwaiterOK(a)
  BY <1>1, <1>2, Zenon DEF AwaiterOK
<1> QED BY <1>1, <1>3, Zenon DEF a

\* k bytes go from the socket to memory that holds the first data bytes of a
\* read (read, on_read_ready).
LEMMA FetchFacts ==
  ASSUME NEW data \in Nat, NEW k \in Nat, NEW want \in Nat, NEW m \in [1..want -> Nat],
         pipe \in Seq(Nat), taken \in Nat, k <= Len(pipe), data + k <= want,
         \A i \in 1..data : m[i] = taken + i,
         \A i \in 1..Len(pipe) : pipe[i] = taken + data + i,
         St!Fetch(m, data, k)
  PROVE  /\ mem' \in [1..want -> Nat] /\ pipe' \in Seq(Nat) /\ Len(pipe') = Len(pipe) - k
         /\ \A i \in 1..(data + k) : mem'[i] = taken + i
         /\ \A i \in 1..Len(pipe') : pipe'[i] = taken + data + k + i
<1>1. /\ pipe' = SubSeq(pipe, k + 1, Len(pipe))
      /\ mem' = [i \in 1..want |-> IF i \in data + 1 .. data + k THEN pipe[i - data] ELSE m[i]]
  BY Zenon DEF St!Fetch
<1>2. /\ pipe' \in Seq(Nat) /\ Len(pipe') = Len(pipe) - k
      /\ \A i \in 1..Len(pipe') : pipe'[i] = pipe[k + i]
  <2>1. k \in 0..Len(pipe)
    OBVIOUS
  <2> QED BY <1>1, <2>1, DropFacts, ZenonT(60)
<1>3. \A i \in 1..Len(pipe') : pipe'[i] = taken + data + k + i
  BY <1>2
<1>4. ASSUME NEW i \in 1..want PROVE mem'[i] \in Nat
  <2>1. CASE i \in data + 1 .. data + k
    <3>1. i - data \in 1..Len(pipe) /\ mem'[i] = pipe[i - data]
      BY <1>1, <2>1
    <3> QED BY <3>1
  <2>2. CASE i \notin data + 1 .. data + k
    BY <1>1, <2>2, Zenon
  <2> QED BY <2>1, <2>2, Zenon
<1>5. ASSUME NEW i \in 1..(data + k) PROVE mem'[i] = taken + i
  <2>1. CASE i \in 1..data
    BY <1>1, <2>1
  <2>2. CASE i \in data + 1 .. data + k
    <3>1. i - data \in 1..Len(pipe) /\ mem'[i] = pipe[i - data]
      BY <1>1, <2>2
    <3> QED BY <3>1
  <2> QED BY <2>1, <2>2
<1> QED BY <1>1, <1>2, <1>3, <1>4, <1>5, ZenonT(30)

\* A read is called, or goes on, and gets what the socket has: the invariant
\* holds for its awaiter afterwards.
LEMMA ReadGoesOn ==
  ASSUME StreamInv, NEW data \in Nat, NEW want \in Nat, NEW m \in [1..want -> Nat], data <= want,
         data = St!Fetched, \A i \in 1..data : m[i] = taken + i,
         NEW k \in 0..(want - data), k <= Len(pipe), St!Fetch(m, data, k),
         AwaiterOK(rd)', rd'.pc # "idle", rd'.want = want, rd'.size = want - data - k,
         UNCHANGED <<wr, given, taken>>
  PROVE  StreamInv'
<1>1. /\ pipe \in Seq(Nat) /\ taken \in Nat /\ given \in Nat /\ AwaiterOK(wr)
      /\ taken + data + Len(pipe) = St!Sent
      /\ \A i \in 1..Len(pipe) : pipe[i] = taken + data + i
  BY Zenon DEF StreamInv
<1>2. /\ mem' \in [1..want -> Nat] /\ pipe' \in Seq(Nat) /\ Len(pipe') = Len(pipe) - k
      /\ \A i \in 1..(data + k) : mem'[i] = taken + i
      /\ \A i \in 1..Len(pipe') : pipe'[i] = taken + data + k + i
  <2>1. k \in Nat /\ data + k <= want
    OBVIOUS
  <2> HIDE DEF StreamInv
  <2> QED BY <1>1, <2>1, FetchFacts, ZenonT(60)
<1>3. St!Fetched' = data + k
  BY DEF St!Fetched
<1>4. St!Sent' = St!Sent
  BY Zenon DEF St!Sent
<1>5. taken + (data + k) + Len(pipe') = St!Sent
  BY <1>1, <1>2
<1> QED BY <1>1, <1>2, <1>3, <1>4, <1>5 DEF StreamInv, AwaiterOK

\* base.read is called (ReadAwaiter::await_ready, await_suspend).
LEMMA ReadStep == ASSUME NEW n \in Nat, StreamInv, St!read(n) PROVE StreamInv'
<1> DEFINE aw == [St!Idle EXCEPT !.size = n, !.want = n]
           m  == [i \in 1..n |-> 0]
<1>1. PICK k \in St!read_result(n) :
        \/ k = St!Error /\ rd' = [aw EXCEPT !.pc = "threw"] /\ mem' = m /\ UNCHANGED pipe
        \/ k = St!Again /\ rd' = St!Advance(aw, 0) /\ mem' = m /\ UNCHANGED pipe
        \/ /\ k >= 0 /\ St!Fetch(m, 0, k)
           /\ rd' = IF k < n THEN St!Advance(aw, k) ELSE [aw EXCEPT !.pc = "resumed", !.size = 0]
  BY Zenon DEF St!read
<1>2. rd.pc = "idle" /\ UNCHANGED <<wr, given, taken>>
  BY Zenon DEF St!read
<1>3. pipe \in Seq(Nat) /\ St!Fetched = 0 /\ m \in [1..n -> Nat]
  BY <1>2, Zenon DEF StreamInv, St!Fetched
<1>4. /\ aw \in AwaiterRecords /\ aw.size = n /\ aw.want = n /\ ~aw.eof /\ ~aw.event
      /\ aw.size <= aw.want /\ aw.data = aw.want - aw.size
  <2>1. aw \in AwaiterRecords /\ aw.size = n /\ aw.want = n /\ aw.data = 0 /\ ~aw.eof /\ ~aw.event
    BY ZenonT(30) DEF AwaiterRecords, St!Idle
  <2> HIDE DEF aw
  <2> QED BY <2>1
<1> HIDE DEF aw, m
<1>5. CASE k = St!Error \/ k = St!Again
  <2>1. /\ rd' = [aw EXCEPT !.pc = "threw"] \/ rd' = St!Advance(aw, 0)
        /\ mem' = m /\ UNCHANGED pipe
    BY <1>1, <1>5 DEF St!Error, St!Again
  <2>2. AwaiterOK(rd') /\ rd'.pc # "idle" /\ rd'.want = n /\ rd'.size = n
    <3>1. CASE rd' = [aw EXCEPT !.pc = "threw"]
      BY <1>4, <3>1, FailFacts, ZenonT(30)
    <3>2. CASE rd' = St!Advance(aw, 0)
      BY <1>4, <3>2, AdvanceFacts
    <3> QED BY <2>1, <3>1, <3>2, SMTT(30)
  <2>3. St!Fetched' = 0 /\ St!Sent' = St!Sent
    BY <1>2, <2>2 DEF St!Fetched, St!Sent
  <2>4. AwaiterOK(rd)'
    BY <2>2, Zenon DEF AwaiterOK
  <2> QED BY <1>2, <1>3, <2>1, <2>2, <2>3, <2>4 DEF StreamInv, AwaiterOK
<1>6. CASE k \in 0..n /\ k <= Len(pipe) /\ k # St!Error /\ k # St!Again
  <2>1. /\ rd' = IF k < n THEN St!Advance(aw, k) ELSE [aw EXCEPT !.pc = "resumed", !.size = 0]
        /\ St!Fetch(m, 0, k)
    BY <1>1, <1>6, Zenon
  <2>2. AwaiterOK(rd') /\ rd'.pc # "idle" /\ rd'.want = n /\ rd'.size = n - 0 - k
    <3>1. CASE k < n
      BY <1>4, <1>6, <2>1, <3>1, AdvanceFacts, SMTT(30)
    <3>2. CASE ~(k < n)
      <4>1. rd' = [aw EXCEPT !.pc = "resumed", !.size = 0] /\ n - 0 - k = 0
        BY <1>6, <2>1, <3>2
      <4> QED BY <1>4, <4>1, DoneFacts, ZenonT(30)
    <3> QED BY <3>1, <3>2, Zenon
  <2>3. AwaiterOK(rd)'
    BY <2>2, Zenon DEF AwaiterOK
  <2>4. 0 \in Nat /\ 0 <= n /\ k \in 0..(n - 0) /\ \A i \in 1..0 : m[i] = taken + i
    BY <1>6
  <2> QED BY <1>2, <1>3, <1>6, <2>1, <2>2, <2>3, <2>4, ReadGoesOn, Zenon
<1> QED BY <1>3, <1>5, <1>6, ReadResults, Zenon

\* The socket is readable, or seems so (ReadAwaiter::on_read_ready).
LEMMA ReadReadyStep == ASSUME StreamInv, St!on_read_ready PROVE StreamInv'
<1> DEFINE aw == [rd EXCEPT !.event = FALSE]
<1>1. PICK k \in St!read_result(rd.size) :
        \/ k = St!Error /\ rd' = [aw EXCEPT !.pc = "resumed", !.err = TRUE] /\ UNCHANGED <<mem, pipe>>
        \/ k = St!Again /\ rd' = [aw EXCEPT !.event = TRUE] /\ UNCHANGED <<mem, pipe>>
        \/ /\ k >= 0 /\ St!Fetch(mem, rd.data, k)
           /\ rd' = IF k < rd.size THEN St!Advance(aw, k) ELSE [aw EXCEPT !.pc = "resumed", !.size = 0]
  BY Zenon DEF St!on_read_ready
<1>2. rd.event /\ UNCHANGED <<wr, given, taken>>
  BY Zenon DEF St!on_read_ready
<1>3. /\ pipe \in Seq(Nat) /\ AwaiterOK(rd) /\ rd.pc = "suspended" /\ rd.size \in Nat /\ rd.want \in Nat
      /\ rd.data \in Nat /\ rd.size <= rd.want /\ rd.data = rd.want - rd.size /\ rd.data = St!Fetched
      /\ mem \in [1..rd.want -> Nat] /\ \A i \in 1..rd.data : mem[i] = taken + i
  BY <1>2, Zenon DEF StreamInv, AwaiterOK, AwaiterRecords, St!Fetched
<1>4. /\ aw \in AwaiterRecords /\ aw.pc = "suspended" /\ aw.size = rd.size /\ aw.want = rd.want
      /\ aw.data = rd.data /\ ~aw.eof /\ ~aw.event
  BY <1>3, ZenonT(30) DEF AwaiterRecords, AwaiterOK
<1> HIDE DEF aw
<1>5. CASE k = St!Error \/ k = St!Again
  <2>1. /\ rd' = [aw EXCEPT !.pc = "resumed", !.err = TRUE] \/ rd' = [aw EXCEPT !.event = TRUE]
        /\ UNCHANGED <<mem, pipe>>
    BY <1>1, <1>3, <1>5 DEF St!Error, St!Again
  <2>2. AwaiterOK(rd') /\ rd'.pc # "idle" /\ rd'.want = rd.want /\ rd'.size = rd.size
    BY <1>3, <1>4, <2>1, FailFacts, ZenonT(30)
  <2>3. St!Fetched' = St!Fetched /\ St!Sent' = St!Sent
    BY <1>2, <1>3, <2>2, Zenon DEF St!Fetched, St!Sent
  <2>4. AwaiterOK(rd)'
    BY <2>2, Zenon DEF AwaiterOK
  <2> QED BY <1>2, <1>3, <2>1, <2>2, <2>3, <2>4, Zenon DEF StreamInv, AwaiterOK
<1>6. CASE k \in 0..rd.size /\ k <= Len(pipe) /\ k # St!Error /\ k # St!Again
  <2>1. /\ St!Fetch(mem, rd.data, k)
        /\ rd' = IF k < rd.size THEN St!Advance(aw, k) ELSE [aw EXCEPT !.pc = "resumed", !.size = 0]
    BY <1>1, <1>6, Zenon
  <2>2. AwaiterOK(rd') /\ rd'.pc # "idle" /\ rd'.want = rd.want /\ rd'.size = rd.want - rd.data - k
    <3>1. CASE k < rd.size
      BY <1>3, <1>4, <1>6, <2>1, <3>1, AdvanceFacts
    <3>2. CASE ~(k < rd.size)
      <4>1. rd' = [aw EXCEPT !.pc = "resumed", !.size = 0] /\ rd.want - rd.data - k = 0
        BY <1>3, <1>6, <2>1, <3>2
      <4> QED BY <1>4, <4>1, DoneFacts, ZenonT(30)
    <3> QED BY <3>1, <3>2, Zenon
  <2>3. AwaiterOK(rd)'
    BY <2>2, Zenon DEF AwaiterOK
  <2>4. k \in 0..(rd.want - rd.data) /\ rd.data <= rd.want
    BY <1>3, <1>6
  <2> QED BY <1>2, <1>3, <1>6, <2>1, <2>2, <2>3, <2>4, ReadGoesOn, ZenonT(30)
<1> QED BY <1>3, <1>5, <1>6, ReadResults, Zenon

\* A read returns (ReadAwaiter::await_resume): all its bytes are in memory.
LEMMA ReadResumeStep == ASSUME StreamInv, St!read_resume PROVE StreamInv'
<1>1. rd.pc = "resumed" /\ UNCHANGED <<pipe, wr, given>> /\ AwaiterOK(rd) /\ St!Sent' = St!Sent
  BY Zenon DEF St!read_resume, St!kernel, StreamInv, St!Sent
<1>2. CASE rd.err
  <2>1. rd' = [rd EXCEPT !.pc = "threw"] /\ UNCHANGED <<mem, taken>>
    BY <1>2, Zenon DEF St!read_resume
  <2>2. AwaiterOK(rd') /\ rd'.pc # "idle" /\ rd'.want = rd.want /\ rd'.size = rd.size
    BY <1>1, <2>1, Zenon DEF AwaiterOK, AwaiterRecords
  <2>3. St!Fetched' = St!Fetched
    BY <1>1, <2>2, Zenon DEF St!Fetched
  <2>4. AwaiterOK(rd)'
    BY <2>2, Zenon DEF AwaiterOK
  <2> QED BY <1>1, <2>1, <2>2, <2>3, <2>4, Zenon DEF StreamInv, AwaiterOK
<1>3. CASE ~rd.err
  <2>1. rd' = St!Idle /\ taken' = taken + rd.want /\ rd.size = 0 /\ rd.want \in Nat
    BY <1>1, <1>3, Zenon DEF St!read_resume, AwaiterOK, AwaiterRecords
  <2>2. AwaiterOK(rd)' /\ rd'.pc = "idle" /\ St!Fetched' = 0
    BY <2>1 DEF AwaiterOK, AwaiterRecords, St!Idle, St!Fetched
  <2>3. St!Fetched = rd.want
    BY <1>1, <2>1 DEF St!Fetched
  <2>4. pipe \in Seq(Nat) /\ taken \in Nat /\ given \in Nat
    BY Zenon DEF StreamInv
  <2>5. taken' + 0 + Len(pipe) = taken + St!Fetched + Len(pipe)
    BY <2>1, <2>3, <2>4
  <2>6. \A i \in 1..Len(pipe) : pipe[i] = taken' + 0 + i
    BY <2>1, <2>3, <2>4 DEF StreamInv
  <2>7. AwaiterOK(wr)'
    BY <1>1, Zenon DEF StreamInv, AwaiterOK
  <2> QED BY <1>1, <2>1, <2>2, <2>4, <2>5, <2>6, <2>7 DEF StreamInv
<1> QED BY <1>2, <1>3, Zenon

\* A socket whose bytes are numbered from low gets the next k bytes.
LEMMA SendFacts ==
  ASSUME NEW low \in Nat, NEW k \in Nat, NEW p \in Seq(Nat), \A i \in 1..Len(p) : p[i] = low + i,
         NEW q, q = p \o [j \in 1..k |-> low + Len(p) + j]
  PROVE  q \in Seq(Nat) /\ Len(q) = Len(p) + k /\ \A i \in 1..Len(q) : q[i] = low + i
<1> DEFINE f == [j \in 1..k |-> low + Len(p) + j]
<1>1. f \in [1..k -> Nat] /\ \A j \in 1..k : f[j] = low + Len(p) + j
  OBVIOUS
<1>2. q = p \o f
  BY Zenon
<1> HIDE DEF f
<1>3. /\ q \in Seq(Nat) /\ Len(q) = Len(p) + k
      /\ \A i \in 1..Len(p) : q[i] = p[i]
      /\ \A i \in 1..k : q[Len(p) + i] = f[i]
  BY <1>1, <1>2, ContinueFacts
<1>4. ASSUME NEW i \in 1..Len(q) PROVE q[i] = low + i
  <2>1. CASE i \in 1..Len(p)
    BY <1>3, <2>1, Zenon
  <2>2. CASE i \notin 1..Len(p)
    <3>1. i - Len(p) \in 1..k /\ i = Len(p) + (i - Len(p))
      BY <1>3, <2>2
    <3>2. q[i] = f[i - Len(p)] /\ f[i - Len(p)] = low + Len(p) + (i - Len(p))
      BY <1>1, <1>3, <3>1, Zenon
    <3> QED BY <3>1, <3>2
  <2> QED BY <2>1, <2>2, Zenon
<1> QED BY <1>3, <1>4, Zenon

\* A write is called, or goes on, and the socket takes k bytes.
LEMMA WriteGoesOn ==
  ASSUME StreamInv, NEW left \in Nat, NEW want \in Nat, NEW data \in Nat, given' \in Nat,
         data = want - left, given' - left = St!Sent,
         NEW k \in 0..left, St!Send(given', want, data, k),
         AwaiterOK(wr)', wr'.pc # "idle", wr'.size = left - k,
         UNCHANGED <<rd, mem, taken>>
  PROVE  StreamInv'
<1> DEFINE low == taken + St!Fetched
<1>1. /\ pipe \in Seq(Nat) /\ taken \in Nat /\ AwaiterOK(rd) /\ low + Len(pipe) = St!Sent
      /\ rd.pc # "idle" => mem \in [1..rd.want -> Nat]
      /\ \A i \in 1..St!Fetched : mem[i] = taken + i
      /\ \A i \in 1..Len(pipe) : pipe[i] = low + i
  BY Zenon DEF StreamInv
<1>2. low \in Nat /\ k \in Nat
  <2>1. rd.want \in Nat /\ rd.size \in Nat /\ rd.size <= rd.want
    BY <1>1, Zenon DEF AwaiterOK, AwaiterRecords
  <2>2. St!Fetched \in Nat
    BY <2>1 DEF St!Fetched
  <2> QED BY <1>1, <2>2
<1>3. AwaiterOK(rd)'
  BY <1>1, Zenon DEF AwaiterOK
<1>4. St!Fetched' = St!Fetched /\ St!Sent' = given' - (left - k)
  BY Zenon DEF St!Fetched, St!Sent
<1> HIDE DEF low
<1>5. \A j \in 1..k : given' - want + data + j = low + Len(pipe) + j
  BY <1>1
<1>6. pipe' = pipe \o [j \in 1..k |-> low + Len(pipe) + j]
  BY <1>5, ZenonT(30) DEF St!Send
<1>7. pipe' \in Seq(Nat) /\ Len(pipe') = Len(pipe) + k /\ \A i \in 1..Len(pipe') : pipe'[i] = low + i
  BY <1>1, <1>2, <1>6, SendFacts
<1>8. low + Len(pipe') = St!Sent'
  BY <1>1, <1>2, <1>4, <1>7, SMTT(60)
<1> QED BY <1>1, <1>3, <1>4, <1>7, <1>8, SMTT(60) DEF StreamInv, low

\* base.write is called (WriteAwaiter::await_ready, await_suspend).
LEMMA WriteStep == ASSUME NEW n \in Nat, StreamInv, St!write(n) PROVE StreamInv'
<1> DEFINE aw == [St!Idle EXCEPT !.size = n, !.want = n]
<1>1. PICK k \in St!write_result(n) :
        \/ k = St!Error /\ wr' = [aw EXCEPT !.pc = "threw"] /\ UNCHANGED pipe
        \/ k = St!Again /\ wr' = St!Advance(aw, 0) /\ UNCHANGED pipe
        \/ /\ k >= 0 /\ St!Send(given', n, 0, k)
           /\ wr' = IF k < n THEN St!Advance(aw, k) ELSE [aw EXCEPT !.pc = "resumed", !.size = 0]
  BY Zenon DEF St!write
<1>2. wr.pc = "idle" /\ given' = given + n /\ UNCHANGED <<rd, mem, taken>>
  BY Zenon DEF St!write
<1>3. pipe \in Seq(Nat) /\ given \in Nat /\ St!Sent = given
  BY <1>2 DEF StreamInv, St!Sent
<1>4. /\ aw \in AwaiterRecords /\ aw.size = n /\ aw.want = n /\ ~aw.eof /\ ~aw.event
      /\ aw.size <= aw.want /\ aw.data = aw.want - aw.size
  <2>1. aw \in AwaiterRecords /\ aw.size = n /\ aw.want = n /\ aw.data = 0 /\ ~aw.eof /\ ~aw.event
    BY ZenonT(30) DEF AwaiterRecords, St!Idle
  <2> HIDE DEF aw
  <2> QED BY <2>1
<1> HIDE DEF aw
<1>5. CASE k = St!Error \/ k = St!Again
  <2>1. (wr' = [aw EXCEPT !.pc = "threw"] \/ wr' = St!Advance(aw, 0)) /\ UNCHANGED pipe
    BY <1>1, <1>5 DEF St!Error, St!Again
  <2>2. AwaiterOK(wr') /\ wr'.pc # "idle" /\ wr'.size = n
    <3>1. CASE wr' = [aw EXCEPT !.pc = "threw"]
      BY <1>4, <3>1, FailFacts, ZenonT(30)
    <3>2. CASE wr' = St!Advance(aw, 0)
      BY <1>4, <3>2, AdvanceFacts
    <3> QED BY <2>1, <3>1, <3>2, Zenon
  <2>3. St!Sent' = given /\ St!Fetched' = St!Fetched
    BY <1>2, <1>3, <2>2 DEF St!Sent, St!Fetched
  <2>4. AwaiterOK(wr)' /\ AwaiterOK(rd)' /\ given' \in Nat
    BY <1>2, <1>3, <2>2 DEF AwaiterOK, StreamInv
  <2> QED BY <1>2, <1>3, <2>1, <2>3, <2>4, Zenon DEF StreamInv
<1>6. CASE k \in 0..n /\ k # St!Error /\ k # St!Again
  <2>1. /\ wr' = IF k < n THEN St!Advance(aw, k) ELSE [aw EXCEPT !.pc = "resumed", !.size = 0]
        /\ St!Send(given', n, 0, k)
    BY <1>1, <1>6, Zenon
  <2>2. AwaiterOK(wr') /\ wr'.pc # "idle" /\ wr'.size = n - k
    <3>1. CASE k < n
      BY <1>4, <1>6, <2>1, <3>1, AdvanceFacts, SMTT(30)
    <3>2. CASE ~(k < n)
      <4>1. wr' = [aw EXCEPT !.pc = "resumed", !.size = 0] /\ n - k = 0
        BY <1>6, <2>1, <3>2
      <4> QED BY <1>4, <4>1, DoneFacts, ZenonT(30)
    <3> QED BY <3>1, <3>2, Zenon
  <2>3. AwaiterOK(wr)'
    BY <2>2, Zenon DEF AwaiterOK
  <2>4. given' \in Nat /\ 0 \in Nat /\ 0 = n - n /\ given' - n = St!Sent
    BY <1>2, <1>3
  <2> QED BY <1>2, <1>6, <2>1, <2>2, <2>3, <2>4, WriteGoesOn, Zenon
<1> QED BY <1>3, <1>5, <1>6, WriteResults, Zenon

\* The socket is writable, or seems so (WriteAwaiter::on_write_ready).
LEMMA WriteReadyStep == ASSUME StreamInv, St!on_write_ready PROVE StreamInv'
<1> DEFINE aw == [wr EXCEPT !.event = FALSE]
<1>1. PICK k \in St!write_result(wr.size) :
        \/ k = St!Error /\ wr' = [aw EXCEPT !.pc = "resumed", !.err = TRUE] /\ UNCHANGED pipe
        \/ k = St!Again /\ wr' = [aw EXCEPT !.event = TRUE] /\ UNCHANGED pipe
        \/ /\ k >= 0 /\ St!Send(given, wr.want, wr.data, k)
           /\ wr' = IF k < wr.size THEN St!Advance(aw, k) ELSE [aw EXCEPT !.pc = "resumed", !.size = 0]
  BY Zenon DEF St!on_write_ready
<1>2. wr.event /\ UNCHANGED <<rd, mem, given, taken>>
  BY Zenon DEF St!on_write_ready
<1>3. /\ pipe \in Seq(Nat) /\ given \in Nat /\ AwaiterOK(wr) /\ wr.pc = "suspended"
      /\ wr.size \in Nat /\ wr.want \in Nat /\ wr.data \in Nat /\ wr.size <= wr.want
      /\ wr.data = wr.want - wr.size /\ St!Sent = given - wr.size
  BY <1>2, Zenon DEF StreamInv, AwaiterOK, AwaiterRecords, St!Sent
<1>4. /\ aw \in AwaiterRecords /\ aw.pc = "suspended" /\ aw.size = wr.size /\ aw.want = wr.want
      /\ aw.data = wr.data /\ ~aw.eof /\ ~aw.event
  BY <1>3, ZenonT(30) DEF AwaiterRecords, AwaiterOK
<1> HIDE DEF aw
<1>5. CASE k = St!Error \/ k = St!Again
  <2>1. /\ wr' = [aw EXCEPT !.pc = "resumed", !.err = TRUE] \/ wr' = [aw EXCEPT !.event = TRUE]
        /\ UNCHANGED pipe
    BY <1>1, <1>3, <1>5 DEF St!Error, St!Again
  <2>2. AwaiterOK(wr') /\ wr'.pc # "idle" /\ wr'.size = wr.size
    BY <1>3, <1>4, <2>1, FailFacts, ZenonT(30)
  <2>3. St!Sent' = St!Sent /\ St!Fetched' = St!Fetched
    BY <1>2, <1>3, <2>2, SMTT(30) DEF St!Sent, St!Fetched
  <2>4. AwaiterOK(wr)' /\ AwaiterOK(rd)'
    BY <1>2, <2>2, Zenon DEF AwaiterOK, StreamInv
  <2> QED BY <1>2, <2>1, <2>3, <2>4, Zenon DEF StreamInv
<1>6. CASE k \in 0..wr.size /\ k # St!Error /\ k # St!Again
  <2>1. /\ St!Send(given', wr.want, wr.data, k)
        /\ wr' = IF k < wr.size THEN St!Advance(aw, k) ELSE [aw EXCEPT !.pc = "resumed", !.size = 0]
    BY <1>1, <1>2, <1>6, Zenon
  <2>2. AwaiterOK(wr') /\ wr'.pc # "idle" /\ wr'.size = wr.size - k
    <3>1. CASE k < wr.size
      BY <1>3, <1>4, <1>6, <2>1, <3>1, AdvanceFacts, SMTT(30)
    <3>2. CASE ~(k < wr.size)
      <4>1. wr' = [aw EXCEPT !.pc = "resumed", !.size = 0] /\ wr.size - k = 0
        BY <1>3, <1>6, <2>1, <3>2
      <4> QED BY <1>4, <4>1, DoneFacts, ZenonT(30)
    <3> QED BY <3>1, <3>2, Zenon
  <2>3. AwaiterOK(wr)'
    BY <2>2, Zenon DEF AwaiterOK
  <2>4. given' \in Nat /\ given' - wr.size = St!Sent
    BY <1>2, <1>3, Zenon
  <2> QED BY <1>2, <1>3, <1>6, <2>1, <2>2, <2>3, <2>4, WriteGoesOn, SMTT(30)
<1> QED BY <1>3, <1>5, <1>6, WriteResults, Zenon

\* A write returns (WriteAwaiter::await_resume).
LEMMA WriteResumeStep == ASSUME StreamInv, St!write_resume PROVE StreamInv'
<1>1. wr.pc = "resumed" /\ AwaiterOK(wr) /\ UNCHANGED <<pipe, rd, mem, given, taken>>
  BY Zenon DEF St!write_resume, St!kernel, StreamInv
<1>2. AwaiterOK(wr') /\ St!Sent' = St!Sent
  <2>1. CASE wr.err
    <3>1. wr' = [wr EXCEPT !.pc = "threw"]
      BY <2>1, Zenon DEF St!write_resume
    <3> QED BY <1>1, <3>1, Zenon DEF AwaiterOK, AwaiterRecords, St!Sent
  <2>2. CASE ~wr.err
    <3>1. wr' = St!Idle /\ wr.size = 0
      BY <1>1, <2>2, Zenon DEF St!write_resume, AwaiterOK
    <3> QED BY <1>1, <3>1 DEF AwaiterOK, AwaiterRecords, St!Sent, St!Idle
  <2> QED BY <2>1, <2>2, Zenon
<1>3. AwaiterOK(wr)' /\ AwaiterOK(rd)' /\ St!Fetched' = St!Fetched
  BY <1>1, <1>2, Zenon DEF AwaiterOK, StreamInv, St!Fetched
<1> QED BY <1>1, <1>2, <1>3, Zenon DEF StreamInv

\* Every step of the stream keeps the invariant, and so does every other step.
LEMMA StreamInvStep == StreamInv /\ (St!Next \/ UNCHANGED stream) => StreamInv'
<1> SUFFICES ASSUME StreamInv, St!Next \/ UNCHANGED stream PROVE StreamInv'
  BY Zenon
<1>1. ASSUME UNCHANGED <<pipe, rd, mem, wr, given, taken>> PROVE StreamInv'
  BY <1>1, Zenon DEF StreamInv, AwaiterOK, St!Fetched, St!Sent
<1>2. CASE UNCHANGED stream \/ St!Reset \/ St!Close
  BY <1>1, <1>2, Zenon DEF stream, St!Reset, St!Close
<1>3. ASSUME NEW n \in 0..MaxSize, St!read(n) \/ St!write(n) PROVE StreamInv'
  <2>1. n \in Nat
    BY BoundsAssumption
  <2> QED BY <1>3, <2>1, ReadStep, WriteStep, Zenon
<1> QED BY <1>2, <1>3, ReadReadyStep, ReadResumeStep, WriteReadyStep, WriteResumeStep, Zenon DEF St!Next

-----------------------------------------------------------------------------
(* The reads and writes of Buffer *)

BufferRecords == [pc : {"idle", "suspended", "resumed", "threw"},
                  op : {"none", "read_atmost", "read", "read_to", "write"},
                  limit : Int, count : Nat, err : BOOLEAN, eof : BOOLEAN, before : Nat, size : Int]

\* A read in progress: its limit follows from its size and from what the buffer
\* held before, count bytes were added to the buffer since; one that waits for
\* a number of bytes still misses some, one that returns has them.
BufferReadOK ==
  /\ buf_rd \in BufferRecords
  /\ buf_rd.pc \in {"suspended", "resumed"} =>
       /\ buf_rd.op \in {"read_atmost", "read", "read_to"}
       /\ Len(buf_in) = buf_rd.before + buf_rd.count
       /\ buf_rd.op = "read_atmost" =>
            /\ buf_rd.limit = buf_rd.size
            /\ buf_rd.pc = "suspended" => buf_rd.limit # 0 /\ buf_rd.count = 0
            /\ buf_rd.pc = "resumed" /\ ~buf_rd.err =>
                 /\ buf_rd.size < 0 \/ buf_rd.count <= buf_rd.size
                 /\ buf_rd.count = 0 => buf_rd.size = 0 \/ ~buf_open
       /\ buf_rd.op = "read" => buf_rd.limit = buf_rd.size
       /\ buf_rd.op = "read_to" =>
            buf_rd.limit = IF buf_rd.size <= buf_rd.before THEN 0 ELSE buf_rd.size - buf_rd.before
       /\ buf_rd.op \in {"read", "read_to"} =>
            /\ buf_rd.pc = "suspended" => buf_rd.count < buf_rd.limit
            /\ buf_rd.pc = "resumed" /\ ~buf_rd.err /\ ~buf_rd.eof => buf_rd.count = buf_rd.limit

\* A write in progress: count bytes have left the buffer since the call, and
\* its limit is its size, unless that is negative.
BufferWriteOK ==
  /\ buf_wr \in BufferRecords
  /\ buf_wr.pc \in {"suspended", "resumed"} =>
       /\ Bu!Written = buf_wr.count
       /\ buf_wr.size >= 0 => buf_wr.limit = buf_wr.size
       /\ buf_wr.pc = "resumed" /\ ~buf_wr.err => buf_wr.count = buf_wr.limit

\* The inductive invariant.
BufferInv ==
  /\ buf_out \in Seq(Nat) /\ buf_pipe \in Seq(Nat) /\ buf_in \in Seq(Nat)
  /\ added \in Nat /\ Len(buf_out) <= added
  /\ BufferReadOK /\ BufferWriteOK

\* It says what Delivers does.
LEMMA BufferInvDelivers == BufferInv => Bu!Delivers
<1> SUFFICES ASSUME BufferInv PROVE Bu!Delivers
  BY Zenon
<1>1. Bu!ReadDelivers
  <2> SUFFICES ASSUME buf_rd.pc = "resumed", ~buf_rd.err, ~buf_rd.eof PROVE Bu!ReadDelivers
    BY ZenonT(30) DEF Bu!ReadDelivers
  <2>1. /\ Len(buf_in) = buf_rd.before + buf_rd.count /\ buf_rd.before \in Nat /\ buf_rd.count \in Nat
        /\ buf_rd.size \in Int /\ buf_rd.op \in {"read_atmost", "read", "read_to"}
    BY Zenon DEF BufferInv, BufferReadOK, BufferRecords
  <2>2. CASE buf_rd.op = "read_atmost"
    BY <2>1, <2>2, Zenon DEF BufferInv, BufferReadOK, Bu!ReadDelivers
  <2>3. CASE buf_rd.op = "read"
    BY <2>1, <2>3, Zenon DEF BufferInv, BufferReadOK, Bu!ReadDelivers
  <2>4. CASE buf_rd.op = "read_to"
    BY <2>1, <2>4 DEF BufferInv, BufferReadOK, Bu!ReadDelivers
  <2> QED BY <2>1, <2>2, <2>3, <2>4, Zenon
<1>2. Bu!WriteDelivers
  BY Zenon DEF BufferInv, BufferWriteOK, BufferRecords, Bu!WriteDelivers
<1> QED BY <1>1, <1>2, Zenon DEF Bu!Delivers

\* It holds when nothing was added.
LEMMA BufferInvInit == Bu!Init => BufferInv
<1> SUFFICES ASSUME Bu!Init PROVE BufferInv
  BY Zenon
<1>1. Bu!Idle \in BufferRecords /\ Bu!Idle.pc = "idle"
  BY DEF Bu!Idle, BufferRecords
<1> QED BY <1>1 DEF Bu!Init, BufferInv, BufferReadOK, BufferWriteOK

\* A read is called (the constructor of ReadAwaiter, await_ready, await_suspend).
LEMMA BufferReadStep ==
  ASSUME BufferInv, NEW op \in {"read_atmost", "read", "read_to"}, NEW size \in Int, NEW limit \in Int,
         op \in {"read_atmost", "read"} => limit = size,
         op \in {"read", "read_to"} => size >= 0,
         op = "read_to" => limit = IF size <= Len(buf_in) THEN 0 ELSE size - Len(buf_in),
         Bu!ReadAwaiter(op, size, limit)
  PROVE  BufferInv'
<1>1. /\ buf_rd' = [Bu!Idle EXCEPT !.op = op, !.size = size, !.limit = limit, !.before = Len(buf_in),
                                   !.pc = IF limit = 0 THEN "resumed" ELSE "suspended"]
      /\ UNCHANGED <<buf_out, buf_pipe, buf_in, buf_open, buf_reset, buf_wr, added>>
  BY Zenon DEF Bu!ReadAwaiter
<1>2. buf_in \in Seq(Nat) /\ Len(buf_in) \in Nat
  BY DEF BufferInv
<1>3. /\ buf_rd' \in BufferRecords /\ buf_rd'.op = op /\ buf_rd'.size = size /\ buf_rd'.limit = limit
      /\ buf_rd'.before = Len(buf_in) /\ buf_rd'.count = 0
      /\ buf_rd'.pc = IF limit = 0 THEN "resumed" ELSE "suspended"
  BY <1>1, <1>2, ZenonT(30) DEF Bu!Idle, BufferRecords
<1>4. BufferReadOK'
  BY <1>1, <1>2, <1>3 DEF BufferReadOK
<1>5. BufferWriteOK'
  BY <1>1, Zenon DEF BufferInv, BufferWriteOK, Bu!Written
<1> QED BY <1>1, <1>4, <1>5, Zenon DEF BufferInv

\* k bytes have moved from the socket into the evbuffer.
LEMMA MoveInFacts ==
  ASSUME BufferInv, NEW k \in 0..Len(buf_pipe), Bu!MoveIn(k)
  PROVE  buf_in' \in Seq(Nat) /\ buf_pipe' \in Seq(Nat) /\ Len(buf_in') = Len(buf_in) + k
<1>1. /\ buf_in' = buf_in \o SubSeq(buf_pipe, 1, k) /\ buf_pipe' = SubSeq(buf_pipe, k + 1, Len(buf_pipe))
      /\ buf_pipe \in Seq(Nat) /\ buf_in \in Seq(Nat)
  BY Zenon DEF Bu!MoveIn, BufferInv
<1> QED BY <1>1, TakeFacts, DropFacts, ZenonT(60)

\* What evbuffer_read may return: an error, the end of the stream, or at most
\* as many bytes as it was asked for.
LEMMA EvbufferReads ==
  ASSUME BufferInv, NEW n \in Int, n # 0, NEW k \in Bu!evbuffer_read(n), Bu!Readable
  PROVE  \/ k = -1
         \/ k \in 0..Len(buf_pipe) /\ (n > 0 => k <= n) /\ (k = 0 => ~buf_open)
<1>1. buf_pipe \in Seq(Nat)
  BY Zenon DEF BufferInv
<1>2. CASE buf_reset
  BY <1>2, Zenon DEF Bu!evbuffer_read
<1>3. CASE ~buf_reset /\ buf_pipe = <<>>
  BY <1>1, <1>3 DEF Bu!evbuffer_read, Bu!Readable
<1>4. CASE ~buf_reset /\ buf_pipe # <<>>
  BY <1>1, <1>4 DEF Bu!evbuffer_read, Bu!Least
<1> QED BY <1>2, <1>3, <1>4, Zenon

\* The socket is readable for read_atmost (ReadAtMostAwaiter::on_read_ready).
LEMMA BufferAtMostStep == ASSUME BufferInv, Bu!on_read_ready_AtMost PROVE BufferInv'
<1>1. /\ buf_rd.pc = "suspended" /\ buf_rd.op = "read_atmost" /\ Bu!Readable
      /\ UNCHANGED <<buf_out, buf_open, buf_reset, buf_wr, added>>
  BY SMTT(30) DEF Bu!on_read_ready_AtMost
<1>2. PICK k \in Bu!evbuffer_read(buf_rd.limit) :
        IF k < 0
        THEN /\ buf_rd' = [buf_rd EXCEPT !.pc = "resumed", !.err = TRUE]
             /\ UNCHANGED <<buf_pipe, buf_in>>
        ELSE /\ buf_rd' = [buf_rd EXCEPT !.pc = "resumed", !.count = k]
             /\ Bu!MoveIn(k)
  BY ZenonT(30) DEF Bu!on_read_ready_AtMost
<1>3. /\ buf_rd \in BufferRecords /\ buf_rd.limit \in Int /\ buf_rd.limit # 0 /\ buf_rd.limit = buf_rd.size
      /\ buf_rd.count = 0 /\ Len(buf_in) = buf_rd.before + 0 /\ buf_rd.before \in Nat
      /\ buf_in \in Seq(Nat) /\ buf_pipe \in Seq(Nat)
  BY <1>1, Zenon DEF BufferInv, BufferReadOK, BufferRecords
<1>4. BufferWriteOK'
  BY <1>1, Zenon DEF BufferInv, BufferWriteOK, Bu!Written
<1>5. CASE k = -1
  <2>1. buf_rd' = [buf_rd EXCEPT !.pc = "resumed", !.err = TRUE] /\ UNCHANGED <<buf_pipe, buf_in>>
    BY <1>2, <1>5
  <2>2. BufferReadOK'
    BY <1>1, <1>3, <2>1, ZenonT(30) DEF BufferReadOK, BufferRecords
  <2> QED BY <1>1, <1>4, <2>1, <2>2, Zenon DEF BufferInv
<1>6. CASE k \in 0..Len(buf_pipe) /\ (buf_rd.limit > 0 => k <= buf_rd.limit) /\ (k = 0 => ~buf_open)
  <2>1. buf_rd' = [buf_rd EXCEPT !.pc = "resumed", !.count = k] /\ Bu!MoveIn(k)
    BY <1>2, <1>6
  <2>2. buf_in' \in Seq(Nat) /\ buf_pipe' \in Seq(Nat) /\ Len(buf_in') = Len(buf_in) + k
    BY <1>6, <2>1, MoveInFacts, Zenon
  <2>3. /\ buf_rd' \in BufferRecords /\ buf_rd'.pc = "resumed" /\ buf_rd'.op = "read_atmost" /\ buf_rd'.count = k
        /\ buf_rd'.limit = buf_rd.limit /\ buf_rd'.size = buf_rd.size /\ buf_rd'.before = buf_rd.before
    <3>1. k \in Nat
      BY <1>3, <1>6
    <3> QED BY <1>1, <1>3, <2>1, <3>1, ZenonT(30) DEF BufferRecords
  <2>4. BufferReadOK'
    BY <1>1, <1>3, <1>6, <2>2, <2>3, SMTT(30) DEF BufferReadOK
  <2> QED BY <1>1, <1>4, <2>2, <2>4, Zenon DEF BufferInv
<1> QED BY <1>1, <1>3, <1>5, <1>6, EvbufferReads, Zenon

\* The socket is readable for read and read_to (ReadExactlyAwaiter::on_read_ready).
LEMMA BufferExactlyStep == ASSUME BufferInv, Bu!on_read_ready_Exactly PROVE BufferInv'
<1> DEFINE n == buf_rd.limit - buf_rd.count
<1>1. /\ buf_rd.pc = "suspended" /\ buf_rd.op \in {"read", "read_to"} /\ Bu!Readable
      /\ UNCHANGED <<buf_out, buf_open, buf_reset, buf_wr, added>>
  BY SMTT(30) DEF Bu!on_read_ready_Exactly
<1>2. PICK k \in Bu!evbuffer_read(n) :
        IF k < 0
        THEN /\ buf_rd' = [buf_rd EXCEPT !.pc = "resumed", !.err = TRUE]
             /\ UNCHANGED <<buf_pipe, buf_in>>
        ELSE /\ buf_rd' = [buf_rd EXCEPT !.count = @ + k, !.eof = (k = 0),
                                         !.pc = IF k = 0 \/ buf_rd.count + k = buf_rd.limit THEN "resumed" ELSE @]
             /\ Bu!MoveIn(k)
  BY ZenonT(30) DEF Bu!on_read_ready_Exactly
<1>3. /\ buf_rd \in BufferRecords /\ buf_rd.limit \in Int /\ buf_rd.count \in Nat /\ buf_rd.before \in Nat
      /\ buf_rd.count < buf_rd.limit /\ n \in Int /\ n > 0 /\ n # 0
      /\ Len(buf_in) = buf_rd.before + buf_rd.count
      /\ buf_in \in Seq(Nat) /\ buf_pipe \in Seq(Nat)
  BY <1>1 DEF BufferInv, BufferReadOK, BufferRecords
<1>4. BufferWriteOK'
  BY <1>1, Zenon DEF BufferInv, BufferWriteOK, Bu!Written
<1>5. CASE k = -1
  <2>1. buf_rd' = [buf_rd EXCEPT !.pc = "resumed", !.err = TRUE] /\ UNCHANGED <<buf_pipe, buf_in>>
    BY <1>2, <1>5
  <2>2. /\ buf_rd' \in BufferRecords /\ buf_rd'.err /\ buf_rd'.pc = "resumed" /\ buf_rd'.op = buf_rd.op
        /\ buf_rd'.count = buf_rd.count /\ buf_rd'.limit = buf_rd.limit /\ buf_rd'.size = buf_rd.size
        /\ buf_rd'.before = buf_rd.before
    BY <1>3, <2>1, ZenonT(30) DEF BufferRecords
  <2>3. BufferReadOK'
    BY <1>1, <2>1, <2>2, Zenon DEF BufferInv, BufferReadOK
  <2> QED BY <1>1, <1>4, <2>1, <2>3, Zenon DEF BufferInv
<1>6. CASE k \in 0..Len(buf_pipe) /\ k <= n
  <2> DEFINE c == buf_rd.count + k
             p == IF k = 0 \/ c = buf_rd.limit THEN "resumed" ELSE "suspended"
  <2>1. buf_rd' = [buf_rd EXCEPT !.count = c, !.eof = (k = 0), !.pc = p] /\ Bu!MoveIn(k)
    BY <1>1, <1>2, <1>6
  <2>2. buf_in' \in Seq(Nat) /\ buf_pipe' \in Seq(Nat) /\ Len(buf_in') = Len(buf_in) + k
    BY <1>6, <2>1, MoveInFacts, Zenon
  <2>3. /\ c \in Nat /\ p \in {"resumed", "suspended"} /\ Len(buf_in') = buf_rd.before + c
        /\ p = "suspended" => c < buf_rd.limit
        /\ p = "resumed" /\ k # 0 => c = buf_rd.limit
    <3>1. k \in Nat /\ Len(buf_in) \in Nat
      BY <1>3, <1>6
    <3>2. c \in Nat /\ c <= buf_rd.limit
      BY <1>3, <1>6, <3>1
    <3>3. Len(buf_in') = buf_rd.before + c
      BY <1>3, <2>2, <3>1
    <3> HIDE DEF c
    <3> QED BY <1>3, <3>2, <3>3
  <2> HIDE DEF c, p
  <2>4. /\ buf_rd' \in BufferRecords /\ buf_rd'.pc = p /\ buf_rd'.op = buf_rd.op /\ buf_rd'.count = c
        /\ buf_rd'.limit = buf_rd.limit /\ buf_rd'.size = buf_rd.size /\ buf_rd'.before = buf_rd.before
    BY <1>3, <2>1, <2>3, ZenonT(30) DEF BufferRecords
  <2>5. buf_rd'.eof <=> k = 0
    BY <1>3, <2>1, <2>3, ZenonT(30) DEF BufferRecords
  <2>6. BufferReadOK'
    BY <1>1, <2>3, <2>4, <2>5, Zenon DEF BufferInv, BufferReadOK
  <2> QED BY <1>1, <1>4, <2>2, <2>6, Zenon DEF BufferInv
<1> QED BY <1>1, <1>3, <1>5, <1>6, EvbufferReads, Zenon

\* A write is called (the constructor of WriteAwaiter, await_suspend).
LEMMA BufferWriteStep == ASSUME BufferInv, NEW size \in Int, Bu!write(size) PROVE BufferInv'
<1> DEFINE b == added - Len(buf_out)
<1>1. /\ buf_wr' = [Bu!Idle EXCEPT !.op = "write", !.pc = "suspended", !.limit = size, !.size = size, !.before = b]
      /\ UNCHANGED <<buf_out, buf_pipe, buf_in, buf_open, buf_reset, buf_rd, added>>
  BY Zenon DEF Bu!write
<1>2. b \in Nat /\ added \in Nat /\ Len(buf_out) \in Nat /\ added - Len(buf_out) - b = 0
  BY DEF BufferInv
<1> HIDE DEF b
<1>3. /\ buf_wr' \in BufferRecords /\ buf_wr'.pc = "suspended" /\ buf_wr'.limit = size /\ buf_wr'.size = size
      /\ buf_wr'.before = b /\ buf_wr'.count = 0
  BY <1>1, <1>2, ZenonT(30) DEF Bu!Idle, BufferRecords
<1>4. BufferWriteOK'
  BY <1>1, <1>2, <1>3, Zenon DEF BufferWriteOK, Bu!Written
<1>5. BufferReadOK'
  BY <1>1, Zenon DEF BufferInv, BufferReadOK
<1> QED BY <1>1, <1>4, <1>5, Zenon DEF BufferInv

\* The socket is writable (WriteAwaiter::on_write_ready).
LEMMA BufferWriteReadyStep == ASSUME BufferInv, Bu!on_write_ready PROVE BufferInv'
<1> DEFINE limit == IF buf_wr.limit < 0 THEN Len(buf_out) ELSE buf_wr.limit
<1>1. buf_wr.pc = "suspended" /\ UNCHANGED <<buf_in, buf_open, buf_reset, buf_rd, added>>
  BY Zenon DEF Bu!on_write_ready
<1>2. PICK k \in Bu!evbuffer_write_atmost(limit) :
        IF k < 0
        THEN /\ buf_wr' = [buf_wr EXCEPT !.limit = limit, !.pc = "resumed", !.err = TRUE]
             /\ UNCHANGED <<buf_out, buf_pipe>>
        ELSE /\ buf_wr' = [buf_wr EXCEPT !.limit = limit, !.count = @ + k,
                                         !.pc = IF buf_wr.count + k = limit THEN "resumed" ELSE @]
             /\ buf_pipe' = buf_pipe \o SubSeq(buf_out, 1, k)
             /\ buf_out' = SubSeq(buf_out, k + 1, Len(buf_out))
  BY ZenonT(30) DEF Bu!on_write_ready
<1>3. /\ buf_wr \in BufferRecords /\ buf_wr.count \in Nat /\ buf_wr.before \in Nat /\ buf_wr.size \in Int
      /\ added \in Nat /\ Len(buf_out) \in Nat /\ Len(buf_out) <= added
      /\ buf_out \in Seq(Nat) /\ buf_pipe \in Seq(Nat)
      /\ added - Len(buf_out) - buf_wr.before = buf_wr.count
  BY <1>1 DEF BufferInv, BufferWriteOK, BufferRecords, Bu!Written
<1>4. limit \in Nat /\ limit \in Int /\ (buf_wr.size >= 0 => limit = buf_wr.size)
  BY <1>1, <1>3 DEF BufferInv, BufferWriteOK, BufferRecords
<1>5. k = -1 \/ k \in 0..Len(buf_out)
  BY <1>3, <1>4, CapAssumption, SMTT(60) DEF Bu!evbuffer_write_atmost, Bu!Least, BufferInv
<1> HIDE DEF limit
<1>6. BufferReadOK'
  BY <1>1, Zenon DEF BufferInv, BufferReadOK
<1>7. CASE k = -1
  <2>1. buf_wr' = [buf_wr EXCEPT !.limit = limit, !.pc = "resumed", !.err = TRUE] /\ UNCHANGED <<buf_out, buf_pipe>>
    BY <1>2, <1>7
  <2>2. /\ buf_wr' \in BufferRecords /\ buf_wr'.limit = limit /\ buf_wr'.err
        /\ buf_wr'.count = buf_wr.count /\ buf_wr'.before = buf_wr.before /\ buf_wr'.size = buf_wr.size
    BY <1>3, <1>4, <2>1, ZenonT(30) DEF BufferRecords
  <2>3. BufferWriteOK'
    BY <1>1, <1>3, <1>4, <2>1, <2>2, ZenonT(60) DEF BufferWriteOK, Bu!Written
  <2> QED BY <1>1, <1>6, <2>1, <2>3, Zenon DEF BufferInv
<1>8. CASE k \in 0..Len(buf_out)
  <2> DEFINE c == buf_wr.count + k
             p == IF c = limit THEN "resumed" ELSE "suspended"
  <2>1. /\ buf_wr' = [buf_wr EXCEPT !.limit = limit, !.count = c, !.pc = p]
        /\ buf_pipe' = buf_pipe \o SubSeq(buf_out, 1, k)
        /\ buf_out' = SubSeq(buf_out, k + 1, Len(buf_out))
    <3>1. ~(k < 0)
      BY <1>3, <1>8
    <3> QED BY <1>1, <1>2, <3>1, ZenonT(30)
  <2>2. buf_pipe' \in Seq(Nat) /\ buf_out' \in Seq(Nat) /\ Len(buf_out') = Len(buf_out) - k
    BY <1>3, <1>8, <2>1, TakeFacts, DropFacts, ZenonT(60)
  <2>3. k \in Nat /\ c \in Nat /\ p \in {"resumed", "suspended"} /\ (p = "resumed" => c = limit)
    BY <1>3, <1>8
  <2>4. added - Len(buf_out') - buf_wr.before = c /\ Len(buf_out') <= added
    <3>1. Len(buf_out') = Len(buf_out) - k /\ k \in Nat
      BY <2>2, <2>3, Zenon
    <3> QED BY <1>3, <3>1, SMTT(60)
  <2> HIDE DEF c, p
  <2>5. /\ buf_wr' \in BufferRecords /\ buf_wr'.limit = limit /\ buf_wr'.count = c /\ buf_wr'.pc = p
        /\ buf_wr'.before = buf_wr.before /\ buf_wr'.size = buf_wr.size
    BY <1>3, <1>4, <2>1, <2>3, ZenonT(30) DEF BufferRecords
  <2>6. BufferWriteOK'
    BY <1>1, <1>4, <2>3, <2>4, <2>5, ZenonT(60) DEF BufferWriteOK, Bu!Written
  <2>7. buf_in' \in Seq(Nat) /\ added' \in Nat /\ Len(buf_out') <= added'
    BY <1>1, <1>3, <2>4, Zenon DEF BufferInv
  <2> QED BY <1>6, <2>2, <2>6, <2>7, ZenonT(60) DEF BufferInv
<1> QED BY <1>5, <1>7, <1>8, Zenon

\* A read or a write returns (await_resume).
LEMMA BufferResumeStep == ASSUME BufferInv, Bu!read_resume \/ Bu!write_resume PROVE BufferInv'
<1>1. Bu!Idle \in BufferRecords /\ Bu!Idle.pc = "idle"
  BY DEF Bu!Idle, BufferRecords
<1>2. ASSUME NEW aw \in BufferRecords
      PROVE  [aw EXCEPT !.pc = "threw"] \in BufferRecords /\ [aw EXCEPT !.pc = "threw"].pc = "threw"
  BY Zenon DEF BufferRecords
<1>3. CASE Bu!read_resume
  <2>1. (buf_rd' = [buf_rd EXCEPT !.pc = "threw"] \/ buf_rd' = Bu!Idle) /\ UNCHANGED <<buf_out, buf_pipe, buf_in, buf_wr, added>>
    BY <1>3, Zenon DEF Bu!read_resume
  <2>2. BufferReadOK'
    BY <1>1, <1>2, <2>1, ZenonT(30) DEF BufferInv, BufferReadOK
  <2> QED BY <2>1, <2>2, Zenon DEF BufferInv, BufferWriteOK, Bu!Written
<1>4. CASE Bu!write_resume
  <2>1. /\ buf_wr' = [buf_wr EXCEPT !.pc = "threw"] \/ buf_wr' = Bu!Idle
        /\ UNCHANGED <<buf_out, buf_pipe, buf_in, buf_open, buf_rd, added>>
    BY <1>4, Zenon DEF Bu!write_resume
  <2>2. BufferWriteOK'
    BY <1>1, <1>2, <2>1, ZenonT(30) DEF BufferInv, BufferWriteOK
  <2> QED BY <2>1, <2>2, Zenon DEF BufferInv, BufferReadOK
<1> QED BY <1>3, <1>4, Zenon

\* Somebody adds n bytes to the writer's buffer.
LEMMA BufferAddStep == ASSUME BufferInv, NEW n \in Nat, Bu!Add(n) PROVE BufferInv'
<1> DEFINE new == [i \in 1..n |-> added + i]
<1>1. /\ added' = added + n /\ buf_out' = buf_out \o new
      /\ UNCHANGED <<buf_pipe, buf_in, buf_open, buf_reset, buf_rd, buf_wr>>
  BY Zenon DEF Bu!Add
<1>2. added \in Nat /\ buf_out \in Seq(Nat) /\ new \in [1..n -> Nat] /\ Len(buf_out) <= added
  BY DEF BufferInv
<1> HIDE DEF new
<1>3. buf_out' \in Seq(Nat) /\ Len(buf_out') = Len(buf_out) + n
  <2>1. buf_out \o new \in Seq(Nat) /\ Len(buf_out \o new) = Len(buf_out) + n
    BY <1>2, ContinueFacts, SMTT(30)
  <2> QED BY <1>1, <2>1, Zenon
<1>4. Len(buf_out) \in Nat /\ added' \in Nat /\ Len(buf_out') <= added' /\ added' - Len(buf_out') = added - Len(buf_out)
  BY <1>1, <1>2, <1>3
<1>5. BufferWriteOK'
  BY <1>1, <1>4, ZenonT(30) DEF BufferInv, BufferWriteOK, Bu!Written
<1> QED BY <1>1, <1>3, <1>4, <1>5, ZenonT(60) DEF BufferInv, BufferReadOK

\* Every step of the buffers keeps the invariant, and so does every other step.
LEMMA BufferInvStep == BufferInv /\ (Bu!Next \/ UNCHANGED buffer) => BufferInv'
<1> SUFFICES ASSUME BufferInv, Bu!Next \/ UNCHANGED buffer PROVE BufferInv'
  BY Zenon
<1>1. CASE UNCHANGED buffer \/ Bu!Reset
  BY <1>1, SMTT(30) DEF buffer, Bu!Reset, BufferInv, BufferReadOK, BufferWriteOK, Bu!Written
<1>2. CASE Bu!Close
  BY <1>2, Zenon DEF Bu!Close, BufferInv, BufferReadOK, BufferWriteOK, Bu!Written
<1>3. ASSUME NEW n \in 1..MaxSize, Bu!Add(n) PROVE BufferInv'
  <2>1. n \in Nat
    BY BoundsAssumption
  <2> QED BY <1>3, <2>1, BufferAddStep, Zenon
<1>4. ASSUME NEW n \in Bu!Sizes, Bu!read_atmost(n) \/ Bu!write(n) PROVE BufferInv'
  <2>1. n \in Int
    BY BoundsAssumption DEF Bu!Sizes, Bu!NoLimit
  <2> QED BY <1>4, <2>1, BufferReadStep, BufferWriteStep, Zenon DEF Bu!read_atmost
<1>5. ASSUME NEW n \in 0..MaxSize, Bu!read(n) PROVE BufferInv'
  <2>1. n \in Int /\ n >= 0
    BY BoundsAssumption
  <2> QED BY <1>5, <2>1, BufferReadStep, Zenon DEF Bu!read
<1>6. ASSUME NEW n \in 0..MaxSize, Bu!read_to(n) PROVE BufferInv'
  <2> DEFINE limit == IF n <= Len(buf_in) THEN 0 ELSE n - Len(buf_in)
  <2>1. n \in Int /\ n >= 0 /\ limit \in Int /\ Bu!ReadAwaiter("read_to", n, limit)
    BY <1>6, BoundsAssumption, SMTT(30) DEF Bu!read_to, BufferInv
  <2> QED BY <2>1, BufferReadStep, Zenon
<1> QED BY ZenonT(60), <1>1, <1>2, <1>3, <1>4, <1>5, <1>6, BufferAtMostStep, BufferExactlyStep, BufferResumeStep,
           BufferWriteReadyStep DEF Bu!Next

-----------------------------------------------------------------------------
(* The sockets that several coroutines share *)

Messages == [id : Nat, len : Nat]
Results == [id : Nat, len : Nat, size : Nat, data_available : Nat]

\* Who has been told what: the ids returned, held and waiting.
Returned == {returned[i] : i \in 1..Len(returned)}
Held == {res[c].id : c \in So!Holders}
Waiting == {inbox[i].id : i \in 1..Len(inbox)}

\* The inductive invariant: besides OneOwner, an event is added only for a
\* coroutine that is suspended and has no error.
SocketTypes ==
  /\ inbox \in Seq(Messages) /\ returned \in Seq(Nat) /\ arrived \in Nat
  /\ empty \subseteq 1..arrived
  /\ place \in [Coro -> {"idle", "suspended", "resumed", "threw"}]
  /\ res \in [Coro -> Results]
  /\ \A c \in event : c \in Coro /\ place[c] = "suspended" /\ c \notin err
Partition ==
  /\ Returned \cup Held \cup Waiting = (1..arrived) \ empty
  /\ Returned \cap Held = {} /\ Returned \cap Waiting = {} /\ Held \cap Waiting = {}
ReturnedOnce == \A i, j \in 1..Len(returned) : returned[i] = returned[j] => i = j
HeldOnce == \A c, d \in So!Holders : res[c].id = res[d].id => c = d
WaitingOnce == \A i, j \in 1..Len(inbox) : inbox[i].id = inbox[j].id => i = j
Complete(r) == r.len > 0 /\ r.size = IF r.len < max_size THEN r.len ELSE max_size
Whole == kind = "datagram" => \A c \in So!Holders : Complete(res[c])
SocketInv == SocketTypes /\ Partition /\ ReturnedOnce /\ HeldOnce /\ WaitingOnce /\ Whole

\* It says what OneOwner does.
LEMMA SocketInvOneOwner == SocketInv => So!OneOwner
  BY ZenonT(30) DEF SocketInv, Partition, ReturnedOnce, HeldOnce, WaitingOnce, Whole, Complete, Returned, Held, Waiting,
         So!OneOwner

\* It holds when nothing has arrived.
LEMMA SocketInvInit == So!Init => SocketInv
<1> SUFFICES ASSUME So!Init PROVE SocketInv
  BY Zenon
<1>1. So!NoResult \in Results
  BY Zenon DEF So!NoResult, Results
<1>2. SocketTypes
  BY <1>1 DEF So!Init, SocketTypes
<1>3. So!Holders = {} /\ inbox = <<>> /\ returned = <<>> /\ arrived = 0 /\ empty = {}
  BY Zenon DEF So!Init, So!Holders
<1> QED BY <1>2, <1>3 DEF SocketInv, Partition, ReturnedOnce, HeldOnce, WaitingOnce, Whole, Returned, Held, Waiting

\* The first message is taken out of the socket.
LEMMA TakeFirst ==
  ASSUME inbox \in Seq(Messages), inbox # <<>>, inbox' = Tail(inbox), WaitingOnce
  PROVE  /\ inbox' \in Seq(Messages) /\ WaitingOnce' /\ Head(inbox) \in Messages
         /\ Head(inbox).id \in Waiting /\ Waiting' = Waiting \ {Head(inbox).id}
<1>1. /\ inbox' \in Seq(Messages) /\ Len(inbox') = Len(inbox) - 1 /\ Len(inbox) \in Nat /\ Len(inbox) > 0
      /\ \A i \in 1..Len(inbox') : inbox'[i] = inbox[i + 1]
      /\ Head(inbox) = inbox[1] /\ Head(inbox) \in Messages
  OBVIOUS
<1>2. WaitingOnce'
  <2> SUFFICES ASSUME NEW i \in 1..Len(inbox'), NEW j \in 1..Len(inbox'), inbox'[i].id = inbox'[j].id PROVE i = j
    BY Zenon DEF WaitingOnce
  <2>1. i + 1 \in 1..Len(inbox) /\ j + 1 \in 1..Len(inbox) /\ inbox[i + 1].id = inbox[j + 1].id
    BY <1>1
  <2>2. i + 1 = j + 1
    BY <2>1, Zenon DEF WaitingOnce
  <2> QED BY <1>1, <2>2
<1>3. Head(inbox).id \in Waiting
  BY <1>1 DEF Waiting
<1>4. ASSUME NEW x \in Waiting' PROVE x \in Waiting \ {Head(inbox).id}
  <2>1. PICK i \in 1..Len(inbox') : x = inbox'[i].id
    BY <1>4, Zenon DEF Waiting
  <2>2. i + 1 \in 1..Len(inbox) /\ 1 \in 1..Len(inbox) /\ i + 1 # 1 /\ x = inbox[i + 1].id
    BY <1>1, <2>1
  <2>3. x # inbox[1].id
    BY <2>2, Zenon DEF WaitingOnce
  <2> QED BY <1>1, <2>2, <2>3, Zenon DEF Waiting
<1>5. ASSUME NEW x \in Waiting \ {Head(inbox).id} PROVE x \in Waiting'
  <2>1. PICK i \in 1..Len(inbox) : x = inbox[i].id
    BY <1>5, Zenon DEF Waiting
  <2>2. i # 1
    BY <1>1, <1>5, <2>1, Zenon
  <2>3. i - 1 \in 1..Len(inbox') /\ (i - 1) + 1 = i
    BY <1>1, <2>2
  <2>4. inbox'[i - 1] = inbox[i]
    BY <1>1, <2>3, SMTT(30)
  <2> QED BY <2>1, <2>3, <2>4, Zenon DEF Waiting
<1> QED BY <1>1, <1>2, <1>3, <1>4, <1>5, Zenon

\* A connection or a message arrives.
LEMMA ArriveStep == ASSUME SocketInv, NEW n \in Nat, So!Arrive(n) PROVE SocketInv'
<1> DEFINE m == [id |-> arrived + 1, len |-> n]
<1>1. /\ arrived' = arrived + 1 /\ inbox' = Append(inbox, m)
      /\ UNCHANGED <<kind, broken, place, event, err, res, returned, empty>>
  BY Zenon DEF So!Arrive
<1>2. inbox \in Seq(Messages) /\ arrived \in Nat /\ m \in Messages /\ m.id = arrived + 1 /\ m.id \in Nat
  BY DEF SocketInv, SocketTypes, Messages
<1> HIDE DEF m
<1>3. /\ inbox' \in Seq(Messages) /\ Len(inbox') = Len(inbox) + 1 /\ Len(inbox) \in Nat
      /\ \A i \in 1..Len(inbox) : inbox'[i] = inbox[i]
      /\ inbox'[Len(inbox) + 1] = m
  BY <1>1, <1>2
<1>4. So!Holders' = So!Holders /\ Held' = Held /\ Returned' = Returned
  BY <1>1, Zenon DEF So!Holders, Held, Returned
<1>5. Waiting' = Waiting \cup {m.id}
  <2>1. 1..Len(inbox') = 1..Len(inbox) \cup {Len(inbox) + 1}
    BY <1>3
  <2> QED BY <1>3, <2>1 DEF Waiting
<1>6. m.id \notin Waiting /\ m.id \notin Held /\ m.id \notin Returned
  BY <1>2 DEF SocketInv, Partition
<1>7. WaitingOnce'
  <2> SUFFICES ASSUME NEW i \in 1..Len(inbox'), NEW j \in 1..Len(inbox'), inbox'[i].id = inbox'[j].id PROVE i = j
    BY Zenon DEF WaitingOnce
  <2>1. i \in 1..Len(inbox) \/ i = Len(inbox) + 1
    BY <1>3
  <2>2. j \in 1..Len(inbox) \/ j = Len(inbox) + 1
    BY <1>3
  <2>3. \A h \in 1..Len(inbox) : inbox[h].id # m.id
    BY <1>6, Zenon DEF Waiting
  <2>4. CASE i \in 1..Len(inbox) /\ j \in 1..Len(inbox)
    BY <1>3, <2>4, Zenon DEF SocketInv, WaitingOnce
  <2> QED BY <1>3, <2>1, <2>2, <2>3, <2>4, Zenon
<1>8. (1..arrived') \ empty' = ((1..arrived) \ empty) \cup {m.id} /\ empty' \subseteq 1..arrived'
  BY <1>1, <1>2, SMTT(30) DEF SocketInv, SocketTypes
<1>9. Partition'
  BY <1>4, <1>5, <1>6, <1>8, SMTT(60) DEF SocketInv, Partition
<1>10. SocketTypes'
  BY <1>1, <1>2, <1>3, <1>8, SMTT(60) DEF SocketInv, SocketTypes
<1> QED BY <1>1, <1>4, <1>7, <1>9, <1>10, SMTT(30) DEF SocketInv, ReturnedOnce, HeldOnce, Whole

\* A coroutine without a connection or message gets the one that was taken out.
LEMMA HoldStep ==
  ASSUME SocketInv, NEW c \in Coro, c \notin So!Holders, NEW r \in Results,
         inbox # <<>>, inbox' = Tail(inbox), r.id = Head(inbox).id,
         kind = "datagram" => Complete(r),
         place' = [place EXCEPT ![c] = "resumed"], res' = [res EXCEPT ![c] = r],
         c \notin err', \A d \in Coro : d # c => (d \in err' <=> d \in err),
         event' \subseteq event \ {c}, UNCHANGED <<kind, arrived, returned, empty>>
  PROVE  SocketInv'
<1> DEFINE x == Head(inbox).id
<1>1. /\ inbox' \in Seq(Messages) /\ WaitingOnce' /\ x \in Waiting /\ Waiting' = Waiting \ {x}
  BY TakeFirst, SMTT(60) DEF SocketInv, SocketTypes
<1>2. /\ place \in [Coro -> {"idle", "suspended", "resumed", "threw"}] /\ res \in [Coro -> Results]
      /\ \A d \in event : d \in Coro /\ place[d] = "suspended" /\ d \notin err
  BY SMTT(30) DEF SocketInv, SocketTypes
<1>3. So!Holders' = So!Holders \cup {c}
  BY <1>2, SMTT(60) DEF So!Holders
<1>4. res'[c] = r /\ \A d \in So!Holders : res'[d] = res[d] /\ d \in Coro
  BY <1>2, SMTT(30) DEF So!Holders
<1>5. Held' = Held \cup {x} /\ Returned' = Returned
  BY <1>3, <1>4, SMTT(30) DEF Held, Returned
<1>6. HeldOnce'
  <2>1. x \notin Held
    <3>1. Held \cap Waiting = {}
      BY Zenon DEF SocketInv, Partition
    <3> QED BY <1>1, <3>1, Zenon
  <2>2. \A d \in So!Holders : res[d].id # x
    BY <2>1, ZenonT(60) DEF Held
  <2> QED BY <1>3, <1>4, <2>2, SMTT(30) DEF HeldOnce, SocketInv
<1>7. Partition'
  BY <1>1, <1>5, SMTT(60) DEF SocketInv, Partition
<1>8. SocketTypes'
  BY <1>1, <1>2, SMTT(60) DEF SocketInv, SocketTypes
<1>9. Whole' /\ ReturnedOnce'
  BY <1>3, <1>4, SMTT(30) DEF SocketInv, Whole, ReturnedOnce, Complete
<1> QED BY <1>1, <1>6, <1>7, <1>8, <1>9, SMTT(60) DEF SocketInv

\* An empty message is taken out: nobody gets it.
LEMMA DropStep ==
  ASSUME SocketInv, inbox # <<>>, inbox' = Tail(inbox), empty' = empty \cup {Head(inbox).id},
         So!Holders' = So!Holders, UNCHANGED <<kind, arrived, returned, res>>,
         place' \in [Coro -> {"idle", "suspended", "resumed", "threw"}],
         \A d \in event' : d \in Coro /\ place'[d] = "suspended" /\ d \notin err'
  PROVE  SocketInv'
<1>1. /\ inbox' \in Seq(Messages) /\ WaitingOnce' /\ Head(inbox).id \in Waiting
      /\ Waiting' = Waiting \ {Head(inbox).id}
  BY TakeFirst, ZenonT(60) DEF SocketInv, SocketTypes
<1>2. Held' = Held /\ Returned' = Returned
  BY SMTT(30) DEF Held, Returned
<1>3. Partition' /\ empty' \subseteq 1..arrived
  BY <1>1, <1>2, ZenonT(60) DEF SocketInv, SocketTypes, Partition
<1>4. SocketTypes'
  BY <1>1, <1>3, Zenon DEF SocketInv, SocketTypes
<1> QED BY <1>1, <1>3, <1>4, ZenonT(60) DEF SocketInv, ReturnedOnce, HeldOnce, Whole, Complete

\* Nothing is taken out, and nobody has got or lost anything.
LEMMA SocketKept ==
  ASSUME SocketInv, So!Holders' = So!Holders, \A c \in So!Holders : res'[c] = res[c],
         UNCHANGED <<kind, inbox, arrived, returned, empty>>, res' \in [Coro -> Results],
         place' \in [Coro -> {"idle", "suspended", "resumed", "threw"}],
         \A d \in event' : d \in Coro /\ place'[d] = "suspended" /\ d \notin err'
  PROVE  SocketInv'
<1>1. Held' = Held /\ Returned' = Returned /\ Waiting' = Waiting
  BY Zenon DEF Held, Returned, Waiting
<1>2. SocketTypes' /\ Partition'
  BY <1>1, ZenonT(60) DEF SocketInv, SocketTypes, Partition
<1>3. HeldOnce' /\ ReturnedOnce' /\ WaitingOnce'
  BY SMTT(30) DEF SocketInv, HeldOnce, ReturnedOnce, WaitingOnce
<1>4. Whole'
  BY Zenon DEF SocketInv, Whole, Complete
<1> QED BY <1>2, <1>3, <1>4, Zenon DEF SocketInv

\* co_await returns what the coroutine holds, or throws (await_resume).
LEMMA AwaitResumeStep == ASSUME SocketInv, NEW c \in Coro, So!await_resume(c) PROVE SocketInv'
<1>1. /\ place[c] \in {"resumed", "threw"} /\ place' = [place EXCEPT ![c] = "idle"]
      /\ UNCHANGED <<kind, inbox, arrived, broken, event, err, res, empty>>
      /\ returned' = IF place[c] = "threw" \/ c \in err THEN returned ELSE Append(returned, res[c].id)
  BY Zenon DEF So!await_resume
<1>2. /\ place \in [Coro -> {"idle", "suspended", "resumed", "threw"}] /\ res \in [Coro -> Results]
      /\ \A d \in event : d \in Coro /\ place[d] = "suspended" /\ d \notin err
      /\ returned \in Seq(Nat)
  BY Zenon DEF SocketInv, SocketTypes
<1>3. place' \in [Coro -> {"idle", "suspended", "resumed", "threw"}]
  BY <1>1, <1>2, Zenon
<1>4. \A d \in event' : d \in Coro /\ place'[d] = "suspended" /\ d \notin err'
  BY <1>1, <1>2, Zenon
<1>5. So!Holders' = So!Holders \ {c}
  BY <1>1, <1>2, ZenonT(60) DEF So!Holders
<1>6. CASE c \notin So!Holders
  <2>1. returned' = returned
    BY <1>1, <1>6, Zenon DEF So!Holders
  <2> QED BY <1>1, <1>2, <1>3, <1>4, <1>5, <1>6, <2>1, SocketKept, SMTT(60)
<1>7. CASE c \in So!Holders
  <2> DEFINE x == res[c].id
  <2>1. returned' = Append(returned, x) /\ x \in Held /\ x \in Nat
    BY <1>1, <1>2, <1>7, ZenonT(60) DEF So!Holders, Held, Results
  <2>2. /\ returned' \in Seq(Nat) /\ Len(returned') = Len(returned) + 1 /\ Len(returned) \in Nat
        /\ \A i \in 1..Len(returned) : returned'[i] = returned[i]
        /\ returned'[Len(returned) + 1] = x
    BY <1>2, <2>1, SMTT(60)
  <2>3. Returned' = Returned \cup {x} /\ Waiting' = Waiting
    <3>1. Waiting' = Waiting
      BY <1>1, ZenonT(60) DEF Waiting
    <3> HIDE DEF x
    <3>2. {returned'[i] : i \in 1..Len(returned')} = {returned[i] : i \in 1..Len(returned)} \cup {x}
      BY <1>2, <2>1, AppendRange
    <3> QED BY <3>1, <3>2, ZenonT(60) DEF Returned
  <2>4. Held' = Held \ {x}
    <3>1. \A d \in So!Holders : d # c => res[d].id # x
      BY <1>7, SMTT(30) DEF SocketInv, HeldOnce
    <3> QED BY <1>1, <1>5, <3>1, ZenonT(60) DEF Held
  <2>5. \A i \in 1..Len(returned) : returned[i] # x
    BY <2>1, ZenonT(30) DEF SocketInv, Partition, Returned
  <2>6. ReturnedOnce'
    <3> SUFFICES ASSUME NEW i \in 1..Len(returned'), NEW j \in 1..Len(returned'), returned'[i] = returned'[j] PROVE i = j
      BY ZenonT(60) DEF ReturnedOnce
    <3>1. (i \in 1..Len(returned) \/ i = Len(returned) + 1) /\ (j \in 1..Len(returned) \/ j = Len(returned) + 1)
      BY <2>2, SMTT(60)
    <3>2. CASE i \in 1..Len(returned) /\ j \in 1..Len(returned)
      BY <2>2, <3>2, SMTT(30) DEF SocketInv, ReturnedOnce
    <3> QED BY <2>2, <2>5, <3>1, <3>2, ZenonT(60)
  <2>7. Partition'
    BY <1>1, <2>1, <2>3, <2>4, ZenonT(60) DEF SocketInv, Partition
  <2>8. SocketTypes'
    BY <1>1, <1>3, <1>4, <2>2, SMTT(60) DEF SocketInv, SocketTypes
  <2>9. HeldOnce' /\ WaitingOnce' /\ Whole'
    BY <1>1, <1>5, Zenon DEF SocketInv, HeldOnce, WaitingOnce, Whole, Complete
  <2> QED BY <2>6, <2>7, <2>8, <2>9, SMTT(60) DEF SocketInv
<1> QED BY <1>6, <1>7, Zenon

\* A coroutine accepts connections (AcceptAwaiter::await_suspend).
LEMMA AcceptStep == ASSUME SocketInv, NEW c \in Coro, So!accept(c) PROVE SocketInv'
<1>1. /\ place[c] = "idle" /\ place' = [place EXCEPT ![c] = "suspended"] /\ event' = event \cup {c} /\ err' = err \ {c}
      /\ res' = [res EXCEPT ![c] = So!NoResult] /\ UNCHANGED <<kind, inbox, arrived, broken, returned, empty>>
  BY Zenon DEF So!accept
<1>2. /\ place \in [Coro -> {"idle", "suspended", "resumed", "threw"}] /\ res \in [Coro -> Results]
      /\ \A d \in event : d \in Coro /\ place[d] = "suspended" /\ d \notin err
      /\ So!NoResult \in Results
  BY Zenon DEF SocketInv, SocketTypes, So!NoResult, Results
<1>3. So!Holders' = So!Holders /\ \A d \in So!Holders : res'[d] = res[d]
  BY <1>1, <1>2, Zenon DEF So!Holders
<1>4. /\ place' \in [Coro -> {"idle", "suspended", "resumed", "threw"}] /\ res' \in [Coro -> Results]
      /\ \A d \in event' : d \in Coro /\ place'[d] = "suspended" /\ d \notin err'
  BY <1>1, <1>2, Zenon
<1> QED BY <1>1, <1>3, <1>4, SocketKept, ZenonT(60)

\* The listening socket is readable (AcceptAwaiter::on_accept_ready).
LEMMA AcceptReadyStep == ASSUME SocketInv, NEW c \in Coro, So!on_accept_ready(c) PROVE SocketInv'
<1>1. kind = "listen" /\ c \in event /\ UNCHANGED <<kind, arrived, broken, returned, empty>>
  BY Zenon DEF So!on_accept_ready
<1>2. /\ place \in [Coro -> {"idle", "suspended", "resumed", "threw"}] /\ res \in [Coro -> Results]
      /\ \A d \in event : d \in Coro /\ place[d] = "suspended" /\ d \notin err
      /\ inbox \in Seq(Messages)
  BY Zenon DEF SocketInv, SocketTypes
<1>3. c \notin So!Holders /\ c \notin err
  BY <1>1, <1>2, Zenon DEF So!Holders
<1>4. CASE /\ inbox # <<>> /\ event' = event \ {c} /\ res' = [res EXCEPT ![c].id = Head(inbox).id]
           /\ inbox' = Tail(inbox) /\ place' = [place EXCEPT ![c] = "resumed"] /\ UNCHANGED err
  <2> DEFINE r == [res[c] EXCEPT !.id = Head(inbox).id]
  <2>1. Head(inbox).id \in Nat
    <3>1. Head(inbox) \in Messages
      BY <1>2, <1>4
    <3> QED BY <3>1, Zenon DEF Messages
  <2>2. r \in Results /\ r.id = Head(inbox).id
    BY <1>2, <2>1, ZenonT(60) DEF Results
  <2>3. res' = [res EXCEPT ![c] = r]
    BY <1>2, <1>4, Zenon
  <2> HIDE DEF r
  <2>4. c \notin err' /\ (\A d \in Coro : d # c => (d \in err' <=> d \in err)) /\ event' \subseteq event \ {c}
    BY <1>3, <1>4, Zenon
  <2> QED BY <1>1, <1>3, <1>4, <2>2, <2>3, <2>4, HoldStep, ZenonT(60)
<1>5. CASE UNCHANGED <<inbox, place, res>> /\ event' \subseteq event /\ err' \subseteq err \cup {c}
           /\ (c \in event' => err' = err) /\ err \subseteq err'
  <2>1. So!Holders' = So!Holders
    BY <1>1, <1>2, <1>5, ZenonT(60) DEF So!Holders
  <2>2. \A d \in event' : d \in Coro /\ place'[d] = "suspended" /\ d \notin err'
    BY <1>2, <1>5, SMTT(30)
  <2> QED BY <1>1, <1>2, <1>5, <2>1, <2>2, SocketKept, ZenonT(60)
<1> QED BY <1>4, <1>5, ZenonT(60) DEF So!on_accept_ready, So!on_accept_ready_Again

\* What a message that is not empty becomes: what fits into max_size of it.
LEMMA ReceivedFacts ==
  ASSUME NEW m \in Messages
  PROVE  /\ So!Received(m) \in Results /\ So!Received(m).id = m.id
         /\ So!bytes_read(m) # 0 => Complete(So!Received(m))
<1>1. m.id \in Nat /\ m.len \in Nat /\ max_size \in Nat \ {0}
  BY max_sizeAssumption, Zenon DEF Messages
<1>2. So!bytes_read(m) \in Nat /\ (So!bytes_read(m) # 0 => m.len > 0)
  BY <1>1, SMTT(30) DEF So!bytes_read
<1>3. So!Received(m) \in Results /\ So!Received(m).id = m.id /\ So!Received(m).len = m.len
  BY <1>1, <1>2, Zenon DEF So!Received, Results
<1>4. So!Received(m).size = IF m.len < max_size THEN m.len ELSE max_size
  BY <1>1, SMTT(30) DEF So!Received, So!bytes_read
<1> QED BY <1>2, <1>3, <1>4, Zenon DEF Complete

\* A coroutine asks for a message (RecvFromAwaiter::await_ready, await_suspend).
LEMMA RecvFromStep == ASSUME SocketInv, NEW c \in Coro, So!recvfrom(c) PROVE SocketInv'
<1>1. /\ place[c] = "idle" /\ err' = err \ {c} /\ UNCHANGED <<kind, arrived, broken, returned>>
  BY Zenon DEF So!recvfrom
<1>2. /\ place \in [Coro -> {"idle", "suspended", "resumed", "threw"}] /\ res \in [Coro -> Results]
      /\ \A d \in event : d \in Coro /\ place[d] = "suspended" /\ d \notin err
      /\ inbox \in Seq(Messages) /\ So!NoResult \in Results
  BY Zenon DEF SocketInv, SocketTypes, So!NoResult, Results
<1>3. c \notin So!Holders /\ c \notin event /\ c \notin err'
  BY <1>1, <1>2, ZenonT(60) DEF So!Holders
<1>4. CASE place' = [place EXCEPT ![c] = "threw"] /\ UNCHANGED <<inbox, event, res, empty>>
  <2>1. So!Holders' = So!Holders
    BY <1>1, <1>2, <1>4, ZenonT(60) DEF So!Holders
  <2>2. /\ place' \in [Coro -> {"idle", "suspended", "resumed", "threw"}] /\ res' \in [Coro -> Results]
        /\ \A d \in event' : d \in Coro /\ place'[d] = "suspended" /\ d \notin err'
    BY <1>1, <1>2, <1>3, <1>4, SMTT(60)
  <2> QED BY <1>1, <1>4, <2>1, <2>2, SocketKept, SMTT(60)
<1>5. CASE /\ place' = [place EXCEPT ![c] = "suspended"] /\ event' = event \cup {c}
           /\ res' = [res EXCEPT ![c] = So!NoResult] /\ UNCHANGED <<inbox, empty>>
  <2>1. So!Holders' = So!Holders /\ \A d \in So!Holders : res'[d] = res[d]
    BY <1>1, <1>2, <1>3, <1>5, ZenonT(60) DEF So!Holders
  <2>2. /\ place' \in [Coro -> {"idle", "suspended", "resumed", "threw"}] /\ res' \in [Coro -> Results]
        /\ \A d \in event' : d \in Coro /\ place'[d] = "suspended" /\ d \notin err'
    BY <1>1, <1>2, <1>3, <1>5, SMTT(60)
  <2> QED BY <1>1, <1>5, <2>1, <2>2, SocketKept, SMTT(60)
<1>6. CASE /\ inbox # <<>> /\ inbox' = Tail(inbox) /\ place' = [place EXCEPT ![c] = "threw"]
           /\ empty' = empty \cup {Head(inbox).id} /\ UNCHANGED <<res, event>>
  <2>1. So!Holders' = So!Holders
    BY <1>1, <1>2, <1>6, SMTT(30) DEF So!Holders
  <2>2. /\ place' \in [Coro -> {"idle", "suspended", "resumed", "threw"}]
        /\ \A d \in event' : d \in Coro /\ place'[d] = "suspended" /\ d \notin err'
    BY <1>1, <1>2, <1>3, <1>6, SMTT(30)
  <2> QED BY <1>1, <1>6, <2>1, <2>2, DropStep, SMTT(60)
<1>7. CASE /\ inbox # <<>> /\ inbox' = Tail(inbox) /\ So!bytes_read(Head(inbox)) # 0
           /\ place' = [place EXCEPT ![c] = "resumed"] /\ res' = [res EXCEPT ![c] = So!Received(Head(inbox))]
           /\ UNCHANGED <<empty, event>>
  <2>1. Head(inbox) \in Messages
    BY <1>2, <1>7
  <2>2. (\A d \in Coro : d # c => (d \in err' <=> d \in err)) /\ event' \subseteq event \ {c}
    BY <1>1, <1>3, <1>7, Zenon
  <2> QED BY <1>1, <1>3, <1>7, <2>1, <2>2, ReceivedFacts, HoldStep, ZenonT(60)
<1>8. CASE broken
  BY <1>4, <1>8, ZenonT(30) DEF So!recvfrom
<1>9. CASE ~broken /\ inbox = <<>>
  BY <1>5, <1>9, ZenonT(30) DEF So!recvfrom
<1>10. CASE ~broken /\ inbox # <<>> /\ So!bytes_read(Head(inbox)) = 0
  BY <1>6, <1>10, ZenonT(30) DEF So!recvfrom
<1>11. CASE ~broken /\ inbox # <<>> /\ So!bytes_read(Head(inbox)) # 0
  BY <1>7, <1>11, ZenonT(30) DEF So!recvfrom
<1> QED BY <1>8, <1>9, <1>10, <1>11, ZenonT(60)

\* The datagram socket is readable (RecvFromAwaiter::on_read_ready).
LEMMA RecvReadyStep == ASSUME SocketInv, NEW c \in Coro, So!on_read_ready(c) PROVE SocketInv'
<1>1. c \in event /\ UNCHANGED <<kind, arrived, broken, returned>>
  BY Zenon DEF So!on_read_ready
<1>2. /\ place \in [Coro -> {"idle", "suspended", "resumed", "threw"}] /\ res \in [Coro -> Results]
      /\ \A d \in event : d \in Coro /\ place[d] = "suspended" /\ d \notin err
      /\ inbox \in Seq(Messages)
  BY Zenon DEF SocketInv, SocketTypes
<1>3. c \notin So!Holders /\ c \notin err
  BY <1>1, <1>2, ZenonT(60) DEF So!Holders
<1>4. CASE /\ event' = event \ {c} /\ err' = err \cup {c} /\ place' = [place EXCEPT ![c] = "resumed"]
           /\ UNCHANGED <<inbox, res, empty>>
  <2>1. So!Holders' = So!Holders
    BY <1>1, <1>2, <1>4, Zenon DEF So!Holders
  <2>2. /\ place' \in [Coro -> {"idle", "suspended", "resumed", "threw"}] /\ res' \in [Coro -> Results]
        /\ \A d \in event' : d \in Coro /\ place'[d] = "suspended" /\ d \notin err'
    BY <1>1, <1>2, <1>3, <1>4, SMTT(60)
  <2> QED BY <1>1, <1>4, <2>1, <2>2, SocketKept, SMTT(60)
<1>5. CASE UNCHANGED <<inbox, event, err, place, res, empty>>
  <2>1. So!Holders' = So!Holders
    BY <1>5, SMTT(30) DEF So!Holders
  <2> QED BY <1>1, <1>2, <1>5, <2>1, SocketKept, SMTT(60)
<1>6. CASE /\ inbox # <<>> /\ inbox' = Tail(inbox) /\ event' = event \ {c} /\ err' = err \cup {c}
           /\ empty' = empty \cup {Head(inbox).id} /\ UNCHANGED <<place, res>>
  <2>1. So!Holders' = So!Holders
    BY <1>1, <1>2, <1>6, ZenonT(60) DEF So!Holders
  <2>2. \A d \in event' : d \in Coro /\ place'[d] = "suspended" /\ d \notin err'
    BY <1>2, <1>6, SMTT(30)
  <2> QED BY <1>1, <1>2, <1>6, <2>1, <2>2, DropStep, SMTT(30)
<1>7. CASE /\ inbox # <<>> /\ inbox' = Tail(inbox) /\ event' = event \ {c} /\ So!bytes_read(Head(inbox)) # 0
           /\ place' = [place EXCEPT ![c] = "resumed"] /\ res' = [res EXCEPT ![c] = So!Received(Head(inbox))]
           /\ UNCHANGED <<err, empty>>
  <2>1. Head(inbox) \in Messages
    BY <1>2, <1>7
  <2>2. c \notin err' /\ (\A d \in Coro : d # c => (d \in err' <=> d \in err)) /\ event' \subseteq event \ {c}
    BY <1>1, <1>3, <1>7, Zenon
  <2> QED BY <1>1, <1>3, <1>7, <2>1, <2>2, ReceivedFacts, HoldStep, ZenonT(60)
<1>8. CASE broken
  BY <1>4, <1>8, ZenonT(30) DEF So!on_read_ready, So!on_read_ready_Again
<1>9. CASE ~broken /\ inbox = <<>>
  BY <1>5, <1>9, ZenonT(30) DEF So!on_read_ready, So!on_read_ready_Again
<1>10. CASE ~broken /\ inbox # <<>> /\ So!bytes_read(Head(inbox)) = 0
  BY <1>6, <1>10, ZenonT(30) DEF So!on_read_ready, So!on_read_ready_Again
<1>11. CASE ~broken /\ inbox # <<>> /\ So!bytes_read(Head(inbox)) # 0
  BY <1>7, <1>11, ZenonT(30) DEF So!on_read_ready, So!on_read_ready_Again
<1> QED BY <1>8, <1>9, <1>10, <1>11, Zenon

\* Every step of the socket keeps the invariant, and so does every other step.
LEMMA SocketInvStep == SocketInv /\ (So!Next \/ UNCHANGED socket) => SocketInv'
<1> SUFFICES ASSUME SocketInv, So!Next \/ UNCHANGED socket PROVE SocketInv'
  BY Zenon
<1>1. CASE UNCHANGED <<kind, inbox, arrived, place, event, err, res, returned, empty>>
  <2>1. So!Holders' = So!Holders
    BY <1>1, Zenon DEF So!Holders
  <2>2. /\ place' \in [Coro -> {"idle", "suspended", "resumed", "threw"}] /\ res' \in [Coro -> Results]
        /\ \A d \in event' : d \in Coro /\ place'[d] = "suspended" /\ d \notin err'
    BY <1>1, Zenon DEF SocketInv, SocketTypes
  <2> QED BY <1>1, <2>1, <2>2, SocketKept, Zenon
<1>2. CASE UNCHANGED socket \/ So!Break
  BY <1>1, <1>2, Zenon DEF socket, So!Break
<1>3. CASE So!Connect \/ So!Datagram
  <2>1. 0 \in Nat /\ \A n \in 0..MaxLength : n \in Nat
    BY BoundsAssumption
  <2> QED BY <1>3, <2>1, ArriveStep, Zenon DEF So!Connect, So!Datagram
<1> QED BY <1>2, <1>3, AcceptStep, AcceptReadyStep, RecvFromStep, RecvReadyStep, AwaitResumeStep, ZenonT(60) DEF So!Next

-----------------------------------------------------------------------------
(* The theorems *)

\* For any capacity of the socket and any sizes of reads and writes: every byte
\* gets across once and in order, and a read or write of Base that returns is
\* complete (ReadAwaiter, WriteAwaiter).
THEOREM StreamsIntact == SpecAll => []StreamIntact
<1>1. InitAll => StreamInv
  BY StreamInvInit, Zenon DEF InitAll
<1>2. StreamInv /\ [NextAll]_allvars => StreamInv'
  BY StreamInvStep, Zenon DEF NextAll, allvars, StreamPart, SocketPart, BufferPart, CallbackPart
<1>3. StreamInv => StreamIntact
  BY StreamInvIntact, Zenon DEF StreamIntact
<1> QED BY <1>1, <1>2, <1>3, PTL DEF SpecAll

\* For any number of coroutines and of arrivals of any length: every connection
\* and every message of a shared socket goes to one coroutine, whole or cut to
\* max_size (AcceptAwaiter, RecvFromAwaiter).
THEOREM ArrivalsHaveOneOwner == SpecAll => []OneOwner
<1>1. InitAll => SocketInv
  BY SocketInvInit, Zenon DEF InitAll
<1>2. SocketInv /\ [NextAll]_allvars => SocketInv'
  BY SocketInvStep, Zenon DEF NextAll, allvars, StreamPart, SocketPart, BufferPart, CallbackPart
<1>3. SocketInv => OneOwner
  BY SocketInvOneOwner, Zenon DEF OneOwner
<1> QED BY <1>1, <1>2, <1>3, PTL DEF SpecAll

\* For any capacity of the socket and any sizes: a read or write of Buffer that
\* returns has moved what it was asked to, whatever was added meanwhile
\* (ReadAtMostAwaiter, ReadExactlyAwaiter, WriteAwaiter).
THEOREM BuffersDeliver == SpecAll => []Delivers
<1>1. InitAll => BufferInv
  BY BufferInvInit, Zenon DEF InitAll
<1>2. BufferInv /\ [NextAll]_allvars => BufferInv'
  BY BufferInvStep, Zenon DEF NextAll, allvars, StreamPart, SocketPart, BufferPart, CallbackPart
<1>3. BufferInv => Delivers
  BY BufferInvDelivers, Zenon DEF Delivers
<1> QED BY <1>1, <1>2, <1>3, PTL DEF SpecAll
=============================================================================
