---------------------------- MODULE BinlogProofs ----------------------------
(***************************************************************************)
(* What MySQLCodec's readers return for everything a server can write, for *)
(* every number, date, time and column width; and what BinlogProcessor and *)
(* the two programs know of the log, for every set of tables, every start  *)
(* and every number of events.                                             *)
(***************************************************************************)
EXTENDS Binlog, WellFoundedInduction, TLAPS

\* get_varint, at whatever place in a message, takes exactly the fields
\* add_varint wrote and returns the number they were written from.
THEOREM VarintInverse ==
  ASSUME NEW v \in Nat, NEW n \in Nat, NEW r, NEW p \in Nat,
         r \in [1..n -> [v : Nat, n : Nat]],
         p >= 1, p + Len(add_varint(v)) - 1 <= n,
         \A i \in 1..Len(add_varint(v)) : r[p + i - 1] = add_varint(v)[i]
  PROVE  get_varint_span(r, p) = Len(add_varint(v)) /\ get_varint(r, p) = v
<1> DEFINE w == add_varint(v)
<1>0. DOMAIN r = 1..n
  BY SMT
<1>1. CASE v <= 250
  <2>1. w = <<F(v, 1)>>
    BY SMT, <1>1 DEF add_varint
  <2>2. r[p] = F(v, 1) /\ p \in DOMAIN r
    BY SMT, <2>1, <1>0
  <2> QED
    BY SMT, <1>1, <2>1, <2>2 DEF get_varint_span, get_varint, InStep, F
<1>2. CASE v > 250
  <2>1. \/ w = <<F(252, 1), F(v, 2)>>
        \/ w = <<F(253, 1), F(v, 3)>>
        \/ w = <<F(254, 1), F(v, 8)>>
    <3>1. CASE v <= 65535
      BY SMT, <1>2, <3>1 DEF add_varint
    <3>2. CASE v > 65535 /\ v <= 16777215
      BY SMTT(60), <3>2 DEF add_varint, F
    <3>3. CASE v > 16777215
      BY SMTT(60), <3>3 DEF add_varint, F
    <3> QED
      BY SMT, <3>1, <3>2, <3>3
  <2>a. PICK m \in {252, 253, 254}, k \in {2, 3, 8} :
           /\ w = <<F(m, 1), F(v, k)>>
           /\ m = 252 => k = 2
           /\ m = 253 => k = 3
           /\ m = 254 => k = 8
    <3> HIDE DEF w
    <3> QED
      BY SMT, <2>1
  <2>2. r[p] = F(m, 1) /\ r[p + 1] = F(v, k) /\ p \in DOMAIN r /\ p + 1 \in DOMAIN r
    <3>1. Len(w) = 2 /\ w[1] = F(m, 1) /\ w[2] = F(v, k)
      BY SMT, <2>a
    <3>2. r[p + 1 - 1] = w[1] /\ r[p + 2 - 1] = w[2]
      BY SMT, <3>1
    <3> QED
      BY SMT, <3>1, <3>2, <1>0
  <2>3. r[p].v = m /\ r[p].n = 1 /\ r[p + 1].v = v /\ r[p + 1].n = k
    BY SMT, <2>2 DEF F
  <2>4. Len(w) = 2
    BY SMT, <2>a
  <2>5. get_varint(r, p) = v
    BY SMT, <2>3 DEF get_varint
  <2>6. InStep(r, p, 1) /\ InStep(r, p + 1, k)
    BY SMT, <2>2, <2>3 DEF InStep
  <2>7. get_varint_span(r, p) = 2
    BY SMTT(60), <2>a, <2>3, <2>6 DEF get_varint_span
  <2> QED
    BY SMT, <2>4, <2>5, <2>7
<1> QED
  BY SMT, <1>1, <1>2

\* BinlogProcessor reads every TIME a server can store as the time it is,
\* negative ones included: the borrow of the complement between the fields
\* is never lost.
THEOREM TimeInverse ==
  ASSUME NEW is_negative \in {0, 1}, NEW h \in 0..838, NEW m \in 0..59, NEW s \in 0..59,
         is_negative = 1 => h + m + s > 0
  PROVE  LET t == [is_negative |-> is_negative, hours |-> h, minutes |-> m, seconds |-> s]
         IN  TimeValue(EncodedTime(t)) = t
<1> DEFINE t == [is_negative |-> is_negative, hours |-> h, minutes |-> m, seconds |-> s]
           k == 4096 * h + 64 * m + s
           c == 8388608 + k
<1>1. k \in Nat /\ k < 8388608
  BY SMTT(60)
<1>2. EncodedTime(t) = IF is_negative = 1 THEN 8388608 - k ELSE 8388608 + k
  BY SMTT(60) DEF EncodedTime, Clock
<1>3. is_negative = 1 => k > 0
  BY SMTT(60)
<1>4. (c \div 4096) % 1024 = h /\ (c \div 64) % 64 = m /\ c % 64 = s
  <2>1. c \div 4096 = 2048 + h
    BY SMTT(60)
  <2>2. c \div 64 = 131072 + 64 * h + m
    BY SMTT(60)
  <2>3. c % 64 = s
    BY SMTT(60)
  <2> QED
    BY SMTT(60), <2>1, <2>2, <2>3
<1>5. CASE is_negative = 1
  <2> HIDE DEF k
  <2>1. 8388608 - k < 8388608 /\ 16777216 - (8388608 - k) = c
    BY SMTT(60), <1>1, <1>3, <1>5
  <2>2. EncodedTime(t) = 8388608 - k
    BY SMTT(60), <1>2, <1>5
  <2> HIDE DEF c
  <2>3. TimeValue(8388608 - k) = [is_negative |-> 1, hours |-> h, minutes |-> m, seconds |-> s]
    BY SMTT(60), <1>4, <2>1 DEF TimeValue
  <2> QED
    BY SMTT(60), <1>5, <2>2, <2>3
<1>6. CASE is_negative = 0
  <2> HIDE DEF k
  <2>1. ~(8388608 + k < 8388608)
    BY SMTT(60), <1>1
  <2>2. EncodedTime(t) = c
    BY SMTT(60), <1>2, <1>6
  <2>3. ~(c < 8388608)
    BY SMTT(60), <2>1
  <2> HIDE DEF c
  <2>4. TimeValue(c) = [is_negative |-> 0, hours |-> h, minutes |-> m, seconds |-> s]
    BY SMTT(60), <1>4, <2>3 DEF TimeValue
  <2> QED
    BY SMTT(60), <1>6, <2>2, <2>4
<1> QED
  BY SMTT(60), <1>5, <1>6

\* BinlogProcessor reads every DATETIME with a month as the date it is.
THEOREM DateTimeInverse ==
  ASSUME NEW years \in 0..9999, NEW months \in 1..12, NEW days \in 0..31, NEW hours \in 0..23,
         NEW minutes \in 0..59, NEW seconds \in 0..59
  PROVE  LET d == [years |-> years, months |-> months, days |-> days, hours |-> hours,
                   minutes |-> minutes, seconds |-> seconds]
         IN  DateTimeValue(EncodedMonth(d), EncodedDay(d)) = d
<1> DEFINE d == [years |-> years, months |-> months, days |-> days, hours |-> hours,
                 minutes |-> minutes, seconds |-> seconds]
           x == 131072 + 13 * years + months
           y == 131072 * days + (4096 * hours + 64 * minutes + seconds)
<1>1. EncodedMonth(d) = x /\ EncodedDay(d) = y
  BY SMTT(60) DEF EncodedMonth, EncodedDay, Clock
<1>2. x \in Int /\ y \in Int /\ x # 131072
  BY SMTT(60)
<1>3. /\ (x - 131073) \div 13 = years /\ (x + 7) % 13 = months
      /\ (y \div 131072) % 32 = days /\ (y \div 4096) % 32 = hours
      /\ (y \div 64) % 64 = minutes /\ y % 64 = seconds
  <2>1. (x - 131073) \div 13 = years /\ (x + 7) % 13 = months
    BY SMTT(60)
  <2>2. y \div 131072 = days
    BY SMTT(60)
  <2>3. y \div 4096 = 32 * days + hours
    BY SMTT(60)
  <2>4. y \div 64 = 64 * (32 * days + hours) + minutes
    BY SMTT(60)
  <2>5. y % 64 = seconds
    BY SMTT(60)
  <2> QED
    BY SMTT(60), <2>1, <2>2, <2>3, <2>4, <2>5
<1> HIDE DEF x, y
<1> DEFINE w == IF x = 131072 THEN 5041 ELSE (x - 131073) \div 13
<1>4. w = years
  BY SMTT(60), <1>2, <1>3
<1>5. DateTimeValue(x, y) = [years |-> w, months |-> (x + 7) % 13, days |-> (y \div 131072) % 32,
                            hours |-> (y \div 4096) % 32, minutes |-> (y \div 64) % 64, seconds |-> y % 64]
  BY SMTT(60) DEF DateTimeValue
<1> HIDE DEF w
<1>6. DateTimeValue(x, y) = d
  BY SMTT(60), <1>3, <1>4, <1>5
<1> QED
  BY SMTT(60), <1>1, <1>6

\* The type byte of a CHAR column, which holds two bits of its width, always
\* gives that width back, and never reads as an ENUM or a SET; so the length
\* before a cell is read from as many bytes as the server wrote.
THEOREM StringWidth ==
  ASSUME NEW width \in 0..1023, NEW ci,
         ci.type = "STRING", ci.meta = <<254 - 16 * (width \div 256), width % 256>>
  PROVE  /\ max_display_width(ci.meta) = width
         /\ ~Enumerated(ci)
         /\ PrefixBytes(ci) = IF width < 256 THEN 1 ELSE 2
<1> DEFINE q == width \div 256
<1>1. q \in 0..3 /\ width = 256 * q + (width % 256)
  BY SMTT(60)
<1>2. ci.meta[1] = 254 - 16 * q /\ ci.meta[2] = width % 256
  BY SMTT(60)
<1>3. ((254 - 16 * q) \div 16) % 4 = 3 - q
  <2> HIDE DEF q
  <2>1. q = 0 \/ q = 1 \/ q = 2 \/ q = 3
    BY SMTT(60), <1>1
  <2> QED
    BY SMTT(60), <2>1
<1>4. max_display_width(ci.meta) = width
  <2> HIDE DEF q
  <2> QED
    BY SMTT(60), <1>1, <1>2, <1>3 DEF max_display_width
<1>5. ~Enumerated(ci)
  <2> HIDE DEF q
  <2> QED
    BY SMTT(60), <1>1, <1>2 DEF Enumerated, ENUM, SET
<1>6. PrefixBytes(ci) = IF width > 255 THEN 2 ELSE 1
  BY SMTT(60), <1>4 DEF PrefixBytes
<1> QED
  BY SMTT(60), <1>4, <1>5, <1>6

-----------------------------------------------------------------------------
(* Induction, from the well-foundedness of Nat *)

\* A nonempty set of numbers has a least one.
LEMMA Least ==
  ASSUME NEW T, T \subseteq Nat, T # {}
  PROVE  \E m \in T : \A k \in T : m <= k
<1> DEFINE R == OpToRel(<, Nat)
<1>1. IsWellFoundedOn(R, Nat)
  BY NatLessThanWellFounded, Zenon
<1>2. \A x, y \in Nat : <<y, x>> \in R <=> y < x
  BY DEF OpToRel
<1> HIDE DEF R
<1>3. PICK x \in T : \A y \in T : ~ (<<y, x>> \in R)
  BY <1>1, WFMin, Zenon
<1>4. \A k \in T : x \in Nat /\ k \in Nat /\ ~(k < x)
  BY <1>2, <1>3, Zenon
<1>5. \A k \in T : x <= k
  BY <1>4, SMT
<1> QED
  BY <1>3, <1>5, Zenon

\* A set that contains 0 and, with a number, the next one contains all numbers.
LEMMA Induction ==
  ASSUME NEW S, 0 \in S, \A n \in Nat : n \in S => n + 1 \in S
  PROVE  Nat \subseteq S
<1> DEFINE T == {n \in Nat : n \notin S}
<1> SUFFICES ASSUME T # {} PROVE FALSE
  OBVIOUS
<1>1. T \subseteq Nat
  OBVIOUS
<1>2. PICK m \in T : \A k \in T : m <= k
  BY <1>1, Least, Zenon
<1>3. m \in Nat /\ m \notin S /\ m # 0
  BY <1>2
<1>4. m - 1 \in Nat /\ m - 1 \notin T
  BY <1>2, <1>3
<1> QED
  BY <1>3, <1>4

-----------------------------------------------------------------------------
(* What the recursive definitions return *)

\* The partial sums of f exist.
LEMMA SumsExist ==
  ASSUME NEW n \in Nat, NEW f, \A i \in 1..n : f[i] \in Nat
  PROVE  \E s : s = [i \in 0..n |-> IF i = 0 THEN 0 ELSE s[i - 1] + f[i]]
<1> DEFINE Sums(s, k) == \A i \in 0..k : s[i] = IF i = 0 THEN 0 ELSE s[i - 1] + f[i]
           S == {k \in Nat : k <= n => \E s \in [0..k -> Nat] : Sums(s, k)}
<1>1. 0 \in S
  <2>1. [i \in 0..0 |-> 0] \in [0..0 -> Nat] /\ Sums([i \in 0..0 |-> 0], 0)
    OBVIOUS
  <2> QED
    BY <2>1, Zenon
<1>2. ASSUME NEW k \in Nat, k \in S PROVE k + 1 \in S
  <2> SUFFICES ASSUME k + 1 <= n PROVE \E s \in [0..(k + 1) -> Nat] : Sums(s, k + 1)
    OBVIOUS
  <2>1. PICK s \in [0..k -> Nat] : Sums(s, k)
    BY <1>2
  <2> DEFINE t == [i \in 0..(k + 1) |-> IF i = k + 1 THEN s[k] + f[k + 1] ELSE s[i]]
  <2>2. s[k] \in Nat /\ f[k + 1] \in Nat
    OBVIOUS
  <2>3. t \in [0..(k + 1) -> Nat]
    BY <2>2
  <2>4. ASSUME NEW i \in 0..(k + 1) PROVE t[i] = IF i = 0 THEN 0 ELSE t[i - 1] + f[i]
    <3>1. CASE i = k + 1
      BY <3>1
    <3>2. CASE i # k + 1
      BY <2>1, <3>2
    <3> QED
      BY <3>1, <3>2
  <2> HIDE DEF t
  <2> QED
    BY <2>3, <2>4, Zenon
<1> HIDE DEF S
<1>3. n \in S
  BY <1>1, <1>2, Induction, Zenon
<1>4. PICK s \in [0..n -> Nat] : Sums(s, n)
  <2>1. n <= n
    OBVIOUS
  <2> QED
    BY <1>3, <2>1, Zenon DEF S
<1>5. s = [i \in 0..n |-> IF i = 0 THEN 0 ELSE s[i - 1] + f[i]]
  BY <1>4
<1> QED
  BY <1>5

\* A sum of numbers is a number.
LEMMA SumType ==
  ASSUME NEW n \in Nat, NEW f, \A i \in 1..n : f[i] \in Nat
  PROVE  Sum(f, n) \in Nat
<1> DEFINE Fix(s) == s = [i \in 0..n |-> IF i = 0 THEN 0 ELSE s[i - 1] + f[i]]
           s == CHOOSE x : Fix(x)
           S == {k \in Nat : k <= n => s[k] \in Nat}
<1>1. \E x : Fix(x)
  BY SumsExist, Zenon
<1>2. Fix(s)
  BY <1>1, Zenon
<1>3. Sum(f, n) = s[n]
  BY Zenon DEF Sum
<1> HIDE DEF s
<1>4. \A i \in 0..n : s[i] = IF i = 0 THEN 0 ELSE s[i - 1] + f[i]
  BY <1>2, Zenon
<1>5. 0 \in S
  BY <1>4
<1>6. ASSUME NEW k \in Nat, k \in S PROVE k + 1 \in S
  BY <1>4, <1>6
<1> HIDE DEF S
<1>7. n \in S
  BY <1>5, <1>6, Induction, Zenon
<1> QED
  BY <1>3, <1>7 DEF S

\* r is a sequence of fields whose sizes are numbers.
Fields(r) == \E S : r \in Seq(S) /\ \A x \in S : x.n \in Nat

\* A sequence is one of fields when its elements are.
LEMMA FieldsIntro ==
  ASSUME NEW n \in Nat, NEW r, DOMAIN r = 1..n, r = [i \in 1..n |-> r[i]], \A i \in 1..n : r[i].n \in Nat
  PROVE  Fields(r)
<1> DEFINE S == {r[i] : i \in 1..n}
<1>1. r \in [1..n -> S]
  OBVIOUS
<1>2. r \in Seq(S)
  <2> HIDE DEF S
  <2> QED
    BY <1>1
<1>3. \A x \in S : x.n \in Nat
  OBVIOUS
<1> QED
  BY <1>2, <1>3, Zenon DEF Fields

\* Fields followed by fields are fields.
LEMMA FieldsConcat ==
  ASSUME NEW r, NEW s, Fields(r), Fields(s)
  PROVE  Fields(r \o s)
<1>1. PICK R : r \in Seq(R) /\ \A x \in R : x.n \in Nat
  BY Zenon DEF Fields
<1>2. PICK S : s \in Seq(S) /\ \A x \in S : x.n \in Nat
  BY Zenon DEF Fields
<1> DEFINE T == R \cup S
<1>3. \A x \in T : x.n \in Nat
  BY <1>1, <1>2, Zenon
<1>4. r \in Seq(T) /\ s \in Seq(T)
  BY <1>1, <1>2
<1> HIDE DEF T
<1>5. r \o s \in Seq(T)
  BY <1>4
<1> QED
  BY <1>3, <1>5, Zenon DEF Fields

\* No fields, one field and two.
LEMMA FieldsFew ==
  ASSUME NEW m \in Nat, NEW n \in Nat, NEW v, NEW w
  PROVE  Fields(<<>>) /\ Fields(<<F(v, m)>>) /\ Fields(<<F(v, m), F(w, n)>>)
<1> DEFINE S == {F(v, m), F(w, n)}
<1>1. \A x \in S : x.n \in Nat
  BY DEF F
<1> HIDE DEF S
<1>2. F(v, m) \in S /\ F(w, n) \in S
  BY Zenon DEF S
<1>3. <<>> \in Seq(S) /\ <<F(v, m)>> \in Seq(S) /\ <<F(v, m), F(w, n)>> \in Seq(S)
  BY <1>2
<1> QED
  BY <1>1, <1>3, Zenon DEF Fields

\* The bytes of fields are a number.
LEMMA BytesType ==
  ASSUME NEW r, Fields(r)
  PROVE  Bytes(r) \in Nat
<1>1. PICK S : r \in Seq(S) /\ \A x \in S : x.n \in Nat
  BY Zenon DEF Fields
<1> DEFINE f == [i \in DOMAIN r |-> r[i].n]
           n == Len(r)
<1>2. n \in Nat /\ \A i \in 1..n : f[i] \in Nat
  BY <1>1
<1> HIDE DEF f, n
<1>3. Sum(f, n) \in Nat
  BY <1>2, SumType, Zenon
<1> QED
  BY <1>3, Zenon DEF Bytes, f, n

\* The partial concatenations of s exist.
LEMMA JoinsExist ==
  ASSUME NEW n \in Nat, NEW s
  PROVE  \E j : j = [i \in 0..n |-> IF i = 0 THEN <<>> ELSE j[i - 1] \o s[i]]
<1> DEFINE Joins(j, k) == j = [i \in 0..k |-> IF i = 0 THEN <<>> ELSE j[i - 1] \o s[i]]
           S == {k \in Nat : \E j : Joins(j, k)}
<1>1. 0 \in S
  <2> DEFINE j == [i \in 0..0 |-> <<>>]
  <2>1. Joins(j, 0)
    OBVIOUS
  <2> HIDE DEF j
  <2> QED
    BY <2>1
<1>2. ASSUME NEW k \in Nat, k \in S PROVE k + 1 \in S
  <2>1. PICK j : Joins(j, k)
    BY <1>2, Zenon
  <2>2. \A i \in 0..k : j[i] = IF i = 0 THEN <<>> ELSE j[i - 1] \o s[i]
    BY <2>1, Zenon
  <2> DEFINE t == [i \in 0..(k + 1) |-> IF i = k + 1 THEN j[k] \o s[k + 1] ELSE j[i]]
  <2>3. ASSUME NEW i \in 0..(k + 1) PROVE t[i] = IF i = 0 THEN <<>> ELSE t[i - 1] \o s[i]
    <3>1. CASE i = k + 1
      <4>0. k + 1 \in 0..(k + 1) /\ k \in 0..(k + 1) /\ k # k + 1
        OBVIOUS
      <4>1. t[k + 1] = j[k] \o s[k + 1] /\ t[k] = j[k]
        BY <4>0, Zenon
      <4>2. i # 0 /\ i - 1 = k
        BY <3>1
      <4> QED
        BY <3>1, <4>1, <4>2, Zenon
    <3>2. CASE i # k + 1
      <4>1. i \in 0..k /\ (i # 0 => i - 1 \in 0..(k + 1) /\ i - 1 # k + 1) /\ t[i] = j[i]
        BY <3>2
      <4>2. i # 0 => t[i - 1] = j[i - 1]
        BY <4>1
      <4> QED
        BY <2>2, <4>1, <4>2, Zenon
    <3> QED
      BY <3>1, <3>2
  <2>4. t = [i \in 0..(k + 1) |-> t[i]]
    OBVIOUS
  <2> HIDE DEF t
  <2>5. Joins(t, k + 1)
    BY <2>3, <2>4
  <2>6. k + 1 \in Nat
    OBVIOUS
  <2> QED
    BY <2>5, <2>6, Zenon
<1> HIDE DEF S
<1>3. n \in S
  BY <1>1, <1>2, Induction, Zenon
<1> QED
  BY <1>3, Zenon DEF S

\* Sequences joined are a sequence of the same elements.
LEMMA JoinedSeq ==
  ASSUME NEW T, NEW s, Len(s) \in Nat, \A i \in 1..Len(s) : s[i] \in Seq(T)
  PROVE  Joined(s) \in Seq(T)
<1> DEFINE n == Len(s)
           Fix(j) == j = [i \in 0..n |-> IF i = 0 THEN <<>> ELSE j[i - 1] \o s[i]]
           j == CHOOSE x : Fix(x)
           S == {k \in Nat : k <= n => j[k] \in Seq(T)}
<1>1. \E x : Fix(x)
  BY JoinsExist, Zenon
<1>2. Fix(j)
  BY <1>1, Zenon
<1>3. Joined(s) = j[n]
  BY Zenon DEF Joined
<1> HIDE DEF j, n
<1>4. \A i \in 0..n : j[i] = IF i = 0 THEN <<>> ELSE j[i - 1] \o s[i]
  BY <1>2, Zenon
<1>5. n \in Nat
  BY DEF n
<1>6. 0 \in S
  <2>1. j[0] = <<>>
    BY <1>4, <1>5
  <2>2. <<>> \in Seq(T) /\ 0 \in Nat
    OBVIOUS
  <2> QED
    BY <2>1, <2>2, Zenon
<1>7. ASSUME NEW k \in Nat, k \in S PROVE k + 1 \in S
  <2> SUFFICES ASSUME k + 1 <= n PROVE j[k + 1] \in Seq(T)
    OBVIOUS
  <2>1. k <= n /\ k + 1 \in 1..n /\ k + 1 \in 0..n /\ k + 1 # 0 /\ (k + 1) - 1 = k
    BY <1>5
  <2>2. j[k] \in Seq(T) /\ s[k + 1] \in Seq(T)
    BY <1>7, <2>1, Zenon DEF n
  <2>3. j[k + 1] = j[k] \o s[k + 1]
    BY <1>4, <2>1, Zenon
  <2>4. \A a, b \in Seq(T) : a \o b \in Seq(T)
    OBVIOUS
  <2> QED
    BY <2>2, <2>3, <2>4, Zenon
<1> HIDE DEF S
<1>8. n \in S
  BY <1>5, <1>6, <1>7, Induction, Zenon
<1>9. n <= n
  BY <1>5
<1> QED
  BY <1>3, <1>8, <1>9, Zenon DEF S

\* Sequences of fields joined are fields.
LEMMA FieldsJoined ==
  ASSUME NEW s, Len(s) \in Nat, \A i \in 1..Len(s) : Fields(s[i])
  PROVE  Fields(Joined(s))
<1> DEFINE T == UNION {{s[i][k] : k \in 1..Len(s[i])} : i \in 1..Len(s)}
<1>1. ASSUME NEW i \in 1..Len(s) PROVE s[i] \in Seq(T) /\ \A k \in 1..Len(s[i]) : s[i][k].n \in Nat
  <2> DEFINE r == s[i]
  <2>1. PICK S : r \in Seq(S) /\ \A x \in S : x.n \in Nat
    BY Zenon DEF Fields
  <2>2. ASSUME NEW k \in 1..Len(s[i]) PROVE s[i][k] \in T
    <3>1. s[i][k] \in {s[i][l] : l \in 1..Len(s[i])}
      BY Zenon
    <3> QED
      BY <3>1, Zenon
  <2> HIDE DEF r, T
  <2>a. Len(r) \in Nat /\ r = [k \in 1..Len(r) |-> r[k]] /\ \A k \in 1..Len(r) : r[k] \in S
    BY <2>1
  <2>b. r \in [1..Len(r) -> T]
    BY <2>a, <2>2 DEF r
  <2>c. \A n \in Nat : \A x \in [1..n -> T] : x \in Seq(T)
    OBVIOUS
  <2>3. r \in Seq(T) /\ \A k \in 1..Len(r) : r[k].n \in Nat
    BY <2>1, <2>a, <2>b, <2>c, Zenon
  <2> QED
    BY <2>3, Zenon DEF r
<1>2. \A x \in T : x.n \in Nat
  BY <1>1, Zenon
<1> HIDE DEF T
<1>3. Joined(s) \in Seq(T)
  BY <1>1, JoinedSeq, Zenon
<1> QED
  BY <1>2, <1>3, Zenon DEF Fields

-----------------------------------------------------------------------------
(* The events the server writes *)

\* The types whose cells hold a point in time, with a fraction of a second.
Timed == {"TIME2", "DATETIME2", "TIMESTAMP2"}

\* The layout of a column: only a cell with a length before it holds as many
\* bytes as its value says, and that value is a number.
Layout(c) ==
  /\ c.meta \in Seq(Nat) /\ c.fixed \in Seq(Nat) /\ c.prefix \in Nat
  /\ c.prefix > 0 => c.type \notin Timed

\* A column with these parts has a layout.
LEMMA ColumnLayout ==
  ASSUME NEW type, NEW meta \in Seq(Nat), NEW prefix \in Nat, NEW fixed \in Seq(Nat),
         prefix > 0 => type \notin Timed
  PROVE  Layout(Column(type, meta, prefix, fixed))
BY DEF Column, Layout

\* So does each kind of column.
LEMMA KindsLayout ==
  ASSUME NEW type, NEW n \in Nat, NEW meta \in Seq(Nat)
  PROVE  /\ Layout(Whole(type, n))
         /\ type \notin Timed => Layout(Lengthy(type, meta, n))
<1>1. <<>> \in Seq(Nat) /\ <<n>> \in Seq(Nat) /\ 0 \in Nat /\ ~(0 > 0)
  OBVIOUS
<1>2. Layout(Column(type, <<>>, 0, <<n>>))
  BY <1>1, ColumnLayout, Zenon
<1>3. type \notin Timed => Layout(Column(type, meta, n, <<>>))
  BY <1>1, ColumnLayout, Zenon
<1> QED
  BY <1>2, <1>3, Zenon DEF Whole, Lengthy

\* A CHAR column does, whatever its width.
LEMMA CharLayout ==
  ASSUME NEW width \in 0..1023
  PROVE  Layout(CharColumn(width))
<1> DEFINE meta == <<254 - 16 * (width \div 256), width % 256>>
           n == IF width < 256 THEN 1 ELSE 2
<1>1. meta \in Seq(Nat) /\ n \in Nat
  <2>1. width \div 256 \in 0..3 /\ width % 256 \in Nat
    OBVIOUS
  <2> QED
    BY <2>1
<1> HIDE DEF meta, n
<1>2. "STRING" \notin Timed
  BY DEF Timed
<1>3. Layout(Lengthy("STRING", meta, n))
  BY <1>1, <1>2, KindsLayout, ZenonT(60)
<1> QED
  BY <1>3, ZenonT(60) DEF CharColumn, meta, n

\* Every column of the server's tables does.
LEMMA ColumnsLayout ==
  ASSUME NEW c \in Columns
  PROVE  Layout(c)
<1>0. /\ "VARCHAR" \notin Timed /\ "BLOB" \notin Timed
      /\ <<>> \in Seq(Nat)
      /\ \A n \in Nat : <<n>> \in Seq(Nat)
      /\ \A m, n \in Nat : <<m, n>> \in Seq(Nat)
      /\ ~(0 > 0)
  BY DEF Timed
<1>1. {0, 1, 2, 3, 4, 5, 6, 8, 255, ENUM, SET} \subseteq Nat
  BY DEF ENUM, SET
<1>2. \A type : \A n \in Nat : Layout(Whole(type, n))
  BY <1>0, KindsLayout, Zenon
<1>3. \A type : \A meta, fixed \in Seq(Nat) : Layout(Column(type, meta, 0, fixed))
  BY <1>0, <1>1, ColumnLayout, Zenon
<1>4. \A meta \in Seq(Nat) : \A n \in Nat : Layout(Lengthy("VARCHAR", meta, n)) /\ Layout(Lengthy("BLOB", meta, n))
  BY <1>0, KindsLayout, Zenon
<1>5. CASE \E type : \E n \in Nat : c = Whole(type, n)
  BY <1>2, <1>5, Zenon
<1>6. CASE \E type : \E meta, fixed \in Seq(Nat) : c = Column(type, meta, 0, fixed)
  BY <1>3, <1>6, Zenon
<1>7. CASE \E meta \in Seq(Nat) : \E n \in Nat : c = Lengthy("VARCHAR", meta, n) \/ c = Lengthy("BLOB", meta, n)
  BY <1>4, <1>7, Zenon
<1>8. CASE \E width \in 0..1023 : c = CharColumn(width)
  BY <1>8, CharLayout, ZenonT(60)
<1>9. \/ \E type : \E n \in Nat : c = Whole(type, n)
      \/ \E type : \E meta, fixed \in Seq(Nat) : c = Column(type, meta, 0, fixed)
      \/ \E meta \in Seq(Nat) : \E n \in Nat : c = Lengthy("VARCHAR", meta, n) \/ c = Lengthy("BLOB", meta, n)
      \/ \E width \in 0..1023 : c = CharColumn(width)
  <2> DEFINE L == {Lengthy("BLOB", <<n>>, n) : n \in 1..4}
             C == {CharColumn(width) : width \in {10, 255, 256, 512, 1023}}
  <2>1. CASE c \in L
    <3>1. PICK n \in 1..4 : c = Lengthy("BLOB", <<n>>, n)
      BY <2>1, Zenon
    <3>2. n \in Nat
      OBVIOUS
    <3> QED
      BY <1>0, <3>1, <3>2, ZenonT(60)
  <2>2. CASE c \in C
    <3>1. PICK width \in {10, 255, 256, 512, 1023} : c = CharColumn(width)
      BY <2>2
    <3>2. width \in 0..1023
      OBVIOUS
    <3>3. \E w \in 0..1023 : c = CharColumn(w)
      BY <3>1, <3>2
    <3> QED
      BY <3>3, ZenonT(60)
  <2>3. CASE c \notin L /\ c \notin C
    BY <1>0, <1>1, <2>3, ZenonT(60) DEF Columns
  <2> QED
    BY <2>1, <2>2, <2>3, ZenonT(60)
<1> QED
  BY <1>5, <1>6, <1>7, <1>8, <1>9, ZenonT(60)

\* Every table mapped is a sequence of the server's columns.
LEMMA TablesColumns ==
  ASSUME NEW cols \in Tables
  PROVE  cols \in Seq(Columns)
<1>1. Whole("INT", 4) \in Columns /\ CharColumn(10) \in Columns /\ CharColumn(1023) \in Columns
  <2> DEFINE C == {CharColumn(width) : width \in {10, 255, 256, 512, 1023}}
  <2>1. CharColumn(10) \in C /\ CharColumn(1023) \in C
    OBVIOUS
  <2>2. C \subseteq Columns
    BY DEF Columns
  <2>3. Whole("INT", 4) \in Columns
    BY ZenonT(60) DEF Columns
  <2> QED
    BY <2>1, <2>2, <2>3
<1>2. /\ \A c \in Columns : <<c>> \in Seq(Columns)
      /\ \A c, d \in Columns : <<c, d>> \in Seq(Columns)
      /\ \A c \in Columns : [i \in 1..9 |-> c] \in Seq(Columns)
  OBVIOUS
<1>3. \/ \E c \in Columns : cols = <<c>>
      \/ cols = <<CharColumn(10), Whole("INT", 4)>>
      \/ cols = <<CharColumn(1023), Whole("INT", 4)>>
      \/ cols = [i \in 1..9 |-> Whole("INT", 4)]
  <2>1. CASE srv.n >= Wide
    <3>1. cols = <<Whole("INT", 4)>> \/ cols = <<CharColumn(10), Whole("INT", 4)>>
      BY <2>1, ZenonT(60) DEF Tables
    <3> QED
      BY <1>1, <3>1, ZenonT(60)
  <2>2. CASE ~(srv.n >= Wide)
    <3>1. cols \in {<<c>> : c \in Columns} \/ cols = <<CharColumn(1023), Whole("INT", 4)>> \/ cols = [i \in 1..9 |-> Whole("INT", 4)]
      BY <2>2, ZenonT(60) DEF Tables
    <3> QED
      BY <3>1, ZenonT(60)
  <2> QED
    BY <2>1, <2>2, ZenonT(60)
<1>4. CASE \E c \in Columns : cols = <<c>>
  BY <1>2, <1>4, Zenon
<1>5. CASE cols = <<CharColumn(10), Whole("INT", 4)>> \/ cols = <<CharColumn(1023), Whole("INT", 4)>>
  <2> DEFINE a == CharColumn(10)
             b == CharColumn(1023)
             d == Whole("INT", 4)
  <2>1. a \in Columns /\ b \in Columns /\ d \in Columns
    BY <1>1
  <2>2. cols = <<a, d>> \/ cols = <<b, d>>
    BY <1>5
  <2> HIDE DEF a, b, d
  <2> QED
    BY <1>2, <2>1, <2>2, Zenon
<1>6. CASE cols = [i \in 1..9 |-> Whole("INT", 4)]
  BY <1>1, <1>2, <1>6, ZenonT(60)
<1> QED
  BY <1>3, <1>4, <1>5, <1>6, ZenonT(60)

\* A column can hold something, and something that is a number when a length
\* comes before it.
LEMMA HeldFacts ==
  ASSUME NEW c, Layout(c)
  PROVE  Held(c) # {} /\ (c.prefix > 0 => Held(c) \subseteq Nat)
<1>1. PICK t \in Times : TRUE
  BY BinlogAssumption, Zenon
<1> DEFINE u == Usecs(c.meta[1])
           T == [is_negative : 0..1, hours : Times, minutes : Times, seconds : Times]
           D == [years : {0, 9999}, months : {0, 1, 12}, days : {1, 31}, hours : {0, 23}, minutes : Times, seconds : Times]
           time == {z \in [time : T, usecs : u] : z.time.is_negative = 1 => Clock(z.time) + z.usecs > 0}
           date == [date : D, usecs : u]
           stamp2 == [seconds : {0, 258, LastSecond}, usecs : u]
           stamp == {0, 258, LastSecond}
           year == {0, 1901, 2155}
           length == {0, 3} \cup (IF c.prefix > 1 THEN {256} ELSE {})
           number == {0, 3} \cup (IF c.fixed[1] > 1 THEN {258} ELSE {}) \cup (IF c.meta = <<>> THEN {-2} ELSE {})
<1>2. Held(c) = CASE c.type = "TIME2"      -> time
                  [] c.type = "DATETIME2"  -> date
                  [] c.type = "TIMESTAMP2" -> stamp2
                  [] c.type = "TIMESTAMP"  -> stamp
                  [] c.type = "YEAR"       -> year
                  [] c.prefix > 0          -> length
                  [] OTHER                 -> number
  BY SMTT(60) DEF Held
<1>3. time # {} /\ date # {} /\ stamp2 # {}
  <2>1. 0 \in u
    BY SMT DEF Usecs
  <2> HIDE DEF u
  <2>2. time # {}
    <3> DEFINE z == [is_negative |-> 0, hours |-> t, minutes |-> t, seconds |-> t]
               x == [time |-> z, usecs |-> 0]
    <3>1. z \in T /\ z.is_negative # 1
      OBVIOUS
    <3> HIDE DEF z, T
    <3>2. x \in [time : T, usecs : u] /\ x.time.is_negative # 1
      BY <2>1, <3>1
    <3> HIDE DEF x
    <3> QED
      BY <3>2, Zenon
  <2>3. date # {}
    <3> DEFINE z == [years |-> 0, months |-> 1, days |-> 1, hours |-> 0, minutes |-> t, seconds |-> t]
    <3>1. z \in D
      OBVIOUS
    <3> HIDE DEF z, D
    <3>2. [date |-> z, usecs |-> 0] \in date
      BY <2>1, <3>1
    <3> QED
      BY <3>2, Zenon
  <2>4. [seconds |-> 0, usecs |-> 0] \in stamp2
    BY <2>1
  <2> HIDE DEF time, date, stamp2
  <2> QED
    BY <2>2, <2>3, <2>4, Zenon
<1>4. stamp # {} /\ year # {} /\ length # {} /\ number # {}
  <2>1. 0 \in stamp /\ 0 \in year /\ 0 \in length /\ 0 \in number
    BY SMT
  <2> HIDE DEF stamp, year, length, number
  <2> QED
    BY <2>1, Zenon
<1>5. stamp \subseteq Nat /\ year \subseteq Nat /\ length \subseteq Nat
  BY SMT DEF LastSecond
<1>6. c.prefix > 0 => c.type \notin {"TIME2", "DATETIME2", "TIMESTAMP2"}
  BY Zenon DEF Layout, Timed
<1> HIDE DEF time, date, stamp2, stamp, year, length, number
<1> QED
  BY <1>2, <1>3, <1>4, <1>5, <1>6, SMT

\* The server writes a cell in whole bytes.
LEMMA WrittenFields ==
  ASSUME NEW c, Layout(c), NEW v, c.prefix > 0 => v \in Nat
  PROVE  Fields(Written(c, v))
<1> DEFINE negative == c.type = "TIME2" /\ v.time.is_negative = 1 /\ v.usecs > 0
           main == CASE c.type = "TIME2"      -> Reversed(Digits(EncodedTime(v.time) - (IF negative THEN 1 ELSE 0), 3))
                     [] c.type = "DATETIME2"  -> DateBytes(EncodedMonth(v.date), EncodedDay(v.date))
                     [] c.type = "TIMESTAMP2" -> Reversed(Digits(v.seconds, 4))
                     [] c.type = "YEAR"       -> Digits(IF v = 0 THEN 0 ELSE v - 1900, 1)
                     [] OTHER                 -> Digits(v, c.fixed[1])
           count == v.usecs \div 10^(6 - 2 * c.fixed[2])
           fraction == Reversed(Digits(IF negative THEN -count ELSE count, c.fixed[2]))
<1>2. Written(c, v) = IF c.prefix > 0 THEN <<F(Digits(v, c.prefix), c.prefix), F(v, v)>>
                      ELSE [i \in 1..Len(c.fixed) |-> F(IF i = 1 THEN main ELSE fraction, c.fixed[i])]
  BY Zenon DEF Written
<1> HIDE DEF main, fraction
<1>3. CASE c.prefix > 0
  <2>1. c.prefix \in Nat
    BY Zenon DEF Layout
  <2> QED
    BY <1>2, <1>3, <2>1, FieldsFew, Zenon
<1>4. CASE ~(c.prefix > 0)
  <2> DEFINE n == Len(c.fixed)
             r == [i \in 1..n |-> F(IF i = 1 THEN main ELSE fraction, c.fixed[i])]
  <2>1. n \in Nat /\ \A i \in 1..n : c.fixed[i] \in Nat
    BY DEF Layout
  <2>2. DOMAIN r = 1..n /\ r = [i \in 1..n |-> r[i]]
    BY Zenon
  <2>3. ASSUME NEW i \in 1..n PROVE r[i].n \in Nat
    BY <2>1 DEF F
  <2> HIDE DEF n, r
  <2>4. Fields(r)
    BY <2>1, <2>2, <2>3, FieldsIntro, Zenon
  <2> QED
    BY <1>2, <1>4, <2>4, Zenon DEF n, r
<1> QED
  BY <1>3, <1>4, Zenon

\* An image whose cells with a length before them are numbers.
Fits(cols, image) ==
  \A i \in 1..Len(cols) : image[i] # <<>> /\ cols[i].prefix > 0 => image[i][1] \in Nat

\* The columns of a table have a layout, and their number is one.
LEMMA TableLayout ==
  ASSUME NEW cols \in Seq(Columns)
  PROVE  Len(cols) \in Nat /\ BitmaskBytes(Len(cols)) \in Nat /\ \A i \in 1..Len(cols) : Layout(cols[i])
<1>1. Len(cols) \in Nat /\ \A i \in 1..Len(cols) : cols[i] \in Columns
  OBVIOUS
<1>2. \A n \in Nat : BitmaskBytes(n) \in Nat
  BY DEF BitmaskBytes
<1> QED
  BY <1>1, <1>2, ColumnsLayout, Zenon

\* The server writes an image in whole bytes.
LEMMA ImageFields ==
  ASSUME NEW cols \in Seq(Columns), NEW image, Fits(cols, image)
  PROVE  Fields(WrittenImage(cols, image))
<1> DEFINE n == Len(cols)
           mask == Masked([i \in 1..n |-> image[i] = <<>>])
           cells == [i \in 1..n |-> IF image[i] = <<>> THEN <<>> ELSE Written(cols[i], image[i][1])]
<1>1. n \in Nat /\ BitmaskBytes(n) \in Nat /\ \A i \in 1..n : Layout(cols[i])
  BY TableLayout, Zenon
<1>2. WrittenImage(cols, image) = <<F(mask, BitmaskBytes(n))>> \o Joined(cells)
  BY Zenon DEF WrittenImage
<1>3. ASSUME NEW i \in 1..n PROVE Fields(cells[i])
  <2>1. CASE image[i] = <<>>
    <3>1. cells[i] = <<>>
      BY <2>1, Zenon
    <3>2. 0 \in Nat
      OBVIOUS
    <3> QED
      BY <3>1, <3>2, FieldsFew, Zenon
  <2>2. CASE image[i] # <<>>
    <3>1. cells[i] = Written(cols[i], image[i][1])
      BY <2>2, Zenon
    <3> QED
      BY <1>1, <2>2, <3>1, WrittenFields, Zenon DEF Fits
  <2> QED
    BY <2>1, <2>2, Zenon
<1>4. Len(cells) = n
  BY <1>1
<1> HIDE DEF mask, cells, n
<1>5. Fields(Joined(cells))
  BY <1>1, <1>3, <1>4, FieldsJoined, Zenon
<1>6. Fields(<<F(mask, BitmaskBytes(n))>>)
  BY <1>1, FieldsFew, Zenon
<1> QED
  BY <1>2, <1>5, <1>6, FieldsConcat, Zenon

\* A table has rows to write, and each fits it.
LEMMA ImagesFit ==
  ASSUME NEW cols \in Seq(Columns)
  PROVE  Images(cols) # {} /\ \A image \in Images(cols) : Fits(cols, image)
<1> DEFINE Cell(c) == {<<v>> : v \in Held(c)} \cup (IF c.nullable THEN {<<>>} ELSE {})
           n == Len(cols)
<1>1. n \in Nat /\ \A i \in 1..n : Layout(cols[i])
  BY TableLayout, Zenon
<1>2. ASSUME NEW c, Layout(c) PROVE Cell(c) # {} /\ \A x \in Cell(c) : x # <<>> /\ c.prefix > 0 => x[1] \in Nat
  <2>1. Held(c) # {} /\ (c.prefix > 0 => Held(c) \subseteq Nat)
    BY <1>2, HeldFacts, Zenon
  <2>2. Cell(c) # {}
    BY <2>1, Zenon
  <2>3. ASSUME NEW x \in Cell(c), x # <<>>, c.prefix > 0 PROVE x[1] \in Nat
    <3>1. x \in {<<v>> : v \in Held(c)}
      BY <2>3, Zenon
    <3>2. PICK v \in Held(c) : x = <<v>>
      BY <3>1, Zenon
    <3> QED
      BY <2>1, <2>3, <3>2
  <2> QED
    BY <2>2, <2>3, Zenon
<1> HIDE DEF Cell
<1>3. CASE n = 1
  <2>1. Images(cols) = {<<x>> : x \in Cell(cols[1])}
    BY <1>3 DEF Images, Cell
  <2>2. Layout(cols[1]) /\ 1..n = {1}
    BY <1>1, <1>3
  <2>3. ASSUME NEW image \in Images(cols) PROVE Fits(cols, image)
    <3>1. PICK x \in Cell(cols[1]) : image = <<x>>
      BY <2>1, Zenon
    <3>2. image[1] = x
      BY <3>1
    <3> QED
      BY <1>2, <2>2, <3>1, <3>2, Zenon DEF Fits
  <2> QED
    BY <1>2, <2>1, <2>2, <2>3, Zenon
<1>4. CASE n = 2
  <2>1. Images(cols) = {<<x, y>> : x \in Cell(cols[1]), y \in Cell(cols[2])}
    BY <1>4 DEF Images, Cell
  <2>2. Layout(cols[1]) /\ Layout(cols[2]) /\ 1..n = {1, 2}
    BY <1>1, <1>4
  <2>3. ASSUME NEW image \in Images(cols) PROVE Fits(cols, image)
    <3>1. PICK x \in Cell(cols[1]), y \in Cell(cols[2]) : image = <<x, y>>
      BY <2>1
    <3>2. image[1] = x /\ image[2] = y
      BY <3>1
    <3>3. ASSUME NEW i \in 1..n, image[i] # <<>>, cols[i].prefix > 0 PROVE image[i][1] \in Nat
      <4>1. i = 1 \/ i = 2
        BY <2>2, Zenon
      <4>2. CASE i = 1
        BY <1>2, <2>2, <3>1, <3>2, <3>3, <4>2, Zenon
      <4>3. CASE i = 2
        BY <1>2, <2>2, <3>1, <3>2, <3>3, <4>3, Zenon
      <4> QED
        BY <4>1, <4>2, <4>3, Zenon
    <3> QED
      BY <3>3, Zenon DEF Fits
  <2>4. PICK x \in Cell(cols[1]), y \in Cell(cols[2]) : TRUE
    BY <1>2, <2>2, Zenon
  <2>5. <<x, y>> \in Images(cols)
    BY <2>1
  <2> QED
    BY <2>3, <2>5, Zenon
<1>5. CASE n # 1 /\ n # 2
  <2> DEFINE a == [i \in 1..n |-> <<3>>]
             b == [i \in 1..n |-> IF i = 9 THEN <<>> ELSE <<0>>]
  <2>1. Images(cols) = {a, b}
    BY <1>5 DEF Images
  <2>2. Fits(cols, a)
    BY DEF Fits
  <2>3. Fits(cols, b)
    BY DEF Fits
  <2> HIDE DEF a, b
  <2> QED
    BY <2>1, <2>2, <2>3, Zenon
<1> QED
  BY <1>3, <1>4, <1>5, Zenon

\* The rows of an event are images of the table.
LEMMA RowDataFit ==
  ASSUME table.columns \in Seq(Columns), NEW write_type, NEW version, NEW data \in RowData(write_type, version)
  PROVE  Len(data) \in Nat /\ \A i \in 1..Len(data) : data[i] \in Images(table.columns)
<1> DEFINE all == Images(table.columns)
           some == CHOOSE image \in all : TRUE
<1>1. some \in all
  BY ImagesFit, Zenon
<1>2. (\E a \in all : data = <<a>>) \/ \E b \in all : data = <<some, b>>
  <2>1. CASE \E a \in IF srv.n > Wide THEN {some} ELSE all : data = <<a>>
    BY <1>1, <2>1, Zenon
  <2>2. CASE \E b \in IF srv.n > Wide THEN {some} ELSE all : data = <<some, b>>
    BY <1>1, <2>2, Zenon
  <2> QED
    BY <2>1, <2>2, Zenon DEF RowData
<1> HIDE DEF all, some
<1>3. CASE \E a \in all : data = <<a>>
  <2>1. PICK a \in all : data = <<a>>
    BY <1>3
  <2>2. Len(data) = 1 /\ data[1] = a /\ 1..Len(data) = {1}
    BY <2>1
  <2> QED
    BY <2>2 DEF all
<1>4. CASE \E b \in all : data = <<some, b>>
  <2>1. PICK b \in all : data = <<some, b>>
    BY <1>4
  <2>2. Len(data) = 2 /\ data[1] = some /\ data[2] = b /\ 1..Len(data) = {1, 2}
    BY <2>1
  <2> QED
    BY <1>1, <2>2 DEF all
<1> QED
  BY <1>2, <1>3, <1>4, Zenon

\* A length-encoded number is fields.
LEMMA VarintFields ==
  ASSUME NEW v
  PROVE  Fields(add_varint(v))
<1>1. {1, 2, 3, 8} \subseteq Nat
  OBVIOUS
<1>2. \A x : Fields(<<F(x, 1)>>)
  BY <1>1, FieldsFew, Zenon
<1>3. \A x, y : \A n \in {2, 3, 8} : Fields(<<F(x, 1), F(y, n)>>)
  BY <1>1, FieldsFew, Zenon
<1>4. \/ add_varint(v) = <<F(v, 1)>>
      \/ \E x : \E n \in {2, 3, 8} : add_varint(v) = <<F(x, 1), F(v, n)>>
  <2> DEFINE a == v <= 250
             b == v <= 65535
             c == v <= 16777215
             x == 252
             y == 253
             z == 254
  <2>1. add_varint(v) = IF a THEN <<F(v, 1)>> ELSE IF b THEN <<F(x, 1), F(v, 2)>>
                        ELSE IF c THEN <<F(y, 1), F(v, 3)>> ELSE <<F(z, 1), F(v, 8)>>
    BY DEF add_varint
  <2> HIDE DEF a, b, c, x, y, z
  <2> QED
    BY <2>1, Zenon
<1> QED
  BY <1>2, <1>3, <1>4, Zenon

\* A sequence of as many fields of the same size is fields.
LEMMA FieldsRow ==
  ASSUME NEW n \in Nat, NEW k \in Nat, NEW f
  PROVE  Fields([i \in 1..n |-> F(f[i], k)])
<1> DEFINE r == [i \in 1..n |-> F(f[i], k)]
<1>1. DOMAIN r = 1..n /\ r = [i \in 1..n |-> r[i]]
  BY Zenon
<1>2. ASSUME NEW i \in 1..n PROVE r[i].n \in Nat
  BY DEF F
<1> HIDE DEF r
<1>3. Fields(r)
  BY <1>1, <1>2, FieldsIntro, Zenon
<1> QED
  BY <1>3, Zenon DEF r

\* A table map event has a size.
LEMMA TableMapFields ==
  ASSUME NEW id, NEW cols \in Seq(Columns)
  PROVE  Fields(TableMapBody(id, cols))
<1> DEFINE n == Len(cols)
           metas == Joined([i \in 1..n |-> cols[i].meta])
           types == [i \in 1..n |-> F(cols[i].type, 1)]
           mask == Masked([i \in 1..n |-> cols[i].nullable])
           a == <<F(id, 6), F(0, 2)>>
           d == [i \in 1..Len(metas) |-> F(metas[i], 1)]
           e == <<F(mask, BitmaskBytes(n))>>
<1>1. n \in Nat /\ BitmaskBytes(n) \in Nat /\ \A i \in 1..n : Layout(cols[i])
  BY TableLayout, Zenon
<1>2. TableMapBody(id, cols) = a \o add_varint(n) \o types \o add_varint(Len(metas)) \o d \o e
  BY Zenon DEF TableMapBody
<1>3. Len(metas) \in Nat
  <2> DEFINE s == [i \in 1..n |-> cols[i].meta]
  <2>1. Len(s) = n
    BY <1>1
  <2>2. \A i \in 1..Len(s) : s[i] \in Seq(Nat)
    BY <1>1, <2>1, Zenon DEF Layout
  <2> HIDE DEF s
  <2>3. Joined(s) \in Seq(Nat)
    BY <1>1, <2>1, <2>2, JoinedSeq, Zenon
  <2>4. Len(Joined(s)) \in Nat
    BY <2>3
  <2> QED
    BY <2>4, Zenon DEF s
<1> HIDE DEF metas, mask
<1>4. {0, 1, 2, 6} \subseteq Nat
  OBVIOUS
<1>5. Fields(a) /\ Fields(e)
  BY <1>1, <1>4, FieldsFew, Zenon
<1>6. Fields(d)
  BY <1>3, <1>4, FieldsRow, Zenon
<1>7. Fields(types)
  <2> DEFINE f == [i \in 1..n |-> cols[i].type]
  <2>1. Fields([i \in 1..n |-> F(f[i], 1)])
    <3> HIDE DEF f
    <3> QED
      BY <1>1, <1>4, FieldsRow, Zenon
  <2>2. types = [i \in 1..n |-> F(f[i], 1)]
    BY Zenon
  <2> QED
    BY <2>1, <2>2, Zenon
<1> HIDE DEF a, types, d, e, n
<1>8. Fields(a \o add_varint(n))
  BY <1>5, VarintFields, FieldsConcat, Zenon
<1>9. Fields(a \o add_varint(n) \o types)
  BY <1>8, <1>7, FieldsConcat, Zenon
<1>10. Fields(a \o add_varint(n) \o types \o add_varint(Len(metas)))
  BY <1>9, VarintFields, FieldsConcat, Zenon
<1>11. Fields(a \o add_varint(n) \o types \o add_varint(Len(metas)) \o d)
  BY <1>10, <1>6, FieldsConcat, Zenon
<1> QED
  BY <1>2, <1>11, <1>5, FieldsConcat, Zenon

\* A table without its first column, and a row without its first cell.
Cut(n, s) == [j \in 1..(n - 1) |-> s[j + 1]]

\* What is left of a row whose first cell is left out is written in whole bytes.
LEMMA CutFields ==
  ASSUME NEW cols \in Seq(Columns), Len(cols) > 1, NEW image, Fits(cols, image)
  PROVE  Fields(WrittenImage(Cut(Len(cols), cols), Cut(Len(cols), image)))
<1> DEFINE n == Len(cols)
           c == Cut(n, cols)
           x == Cut(n, image)
<1>1. n \in Nat /\ n > 1
  OBVIOUS
<1>2. \A j \in 1..(n - 1) : j + 1 \in 1..n /\ cols[j + 1] \in Columns
  OBVIOUS
<1>3. c \in Seq(Columns) /\ Len(c) = n - 1 /\ \A j \in 1..(n - 1) : c[j] = cols[j + 1]
  <2> HIDE DEF n
  <2> QED
    BY <1>1, <1>2 DEF Cut
<1>4. \A j \in 1..(n - 1) : x[j] = image[j + 1]
  BY Zenon DEF Cut
<1>5. Fits(c, x)
  <2>1. \A i \in 1..n : image[i] # <<>> /\ cols[i].prefix > 0 => image[i][1] \in Nat
    BY Zenon DEF Fits
  <2> HIDE DEF n, c, x
  <2> QED
    BY <1>2, <1>3, <1>4, <2>1, Zenon DEF Fits
<1> HIDE DEF n, c, x
<1>6. Fields(WrittenImage(c, x))
  BY <1>3, <1>5, ImageFields, Zenon
<1> QED
  BY <1>6, Zenon DEF n, c, x

\* A rows event has a size, whatever columns are left out.
LEMMA RowsFields ==
  ASSUME NEW id, NEW version, NEW gone, Len(gone) \in Nat, NEW cols \in Seq(Columns), NEW data, Len(data) \in Nat,
         \A i \in 1..Len(data) : Fits(cols, data[i]),
         Len(cols) > 1 \/ \A i \in 1..Len(data) : ~gone[1 + ((i - 1) % Len(gone))]
  PROVE  Fields(RowsBody(id, version, gone, cols, data))
<1> DEFINE n == Len(cols)
           left(i) == gone[1 + ((i - 1) % Len(gone))]
           a == <<F(id, 6), F(0, 2)>>
           b == IF version = 2 THEN <<F(2, 2)>> ELSE <<>>
           d == [i \in 1..Len(gone) |-> F(2^n - (IF gone[i] THEN 2 ELSE 1), BitmaskBytes(n))]
           s == [i \in 1..Len(data) |-> IF left(i) THEN WrittenImage(Cut(n, cols), Cut(n, data[i]))
                                                   ELSE WrittenImage(cols, data[i])]
<1>1. n \in Nat /\ BitmaskBytes(n) \in Nat
  BY TableLayout, Zenon
<1>2. RowsBody(id, version, gone, cols, data) = a \o b \o add_varint(n) \o d \o Joined(s)
  BY Zenon DEF RowsBody, Cut
<1>3. {0, 2, 6} \subseteq Nat
  OBVIOUS
<1>4. Fields(a) /\ Fields(b)
  BY <1>3, FieldsFew, Zenon
<1>5. Fields(d)
  <2> DEFINE f == [i \in 1..Len(gone) |-> 2^n - (IF gone[i] THEN 2 ELSE 1)]
  <2>1. Fields([i \in 1..Len(gone) |-> F(f[i], BitmaskBytes(n))])
    <3> HIDE DEF f
    <3> QED
      BY <1>1, FieldsRow, Zenon
  <2>2. d = [i \in 1..Len(gone) |-> F(f[i], BitmaskBytes(n))]
    BY Zenon
  <2> QED
    BY <2>1, <2>2, Zenon
<1>6. Len(s) = Len(data)
  OBVIOUS
<1>7. \A i \in 1..Len(s) : Fields(s[i])
  BY <1>6, ImageFields, CutFields, Zenon
<1> HIDE DEF a, b, d, s, n
<1>8. Fields(Joined(s))
  BY <1>6, <1>7, FieldsJoined, Zenon
<1>9. Fields(a \o b)
  BY <1>4, FieldsConcat, Zenon
<1>10. Fields(a \o b \o add_varint(n))
  BY <1>9, VarintFields, FieldsConcat, Zenon
<1>11. Fields(a \o b \o add_varint(n) \o d)
  BY <1>10, <1>5, FieldsConcat, Zenon
<1> QED
  BY <1>2, <1>8, <1>11, FieldsConcat, Zenon

-----------------------------------------------------------------------------
(* What the programs know of the log *)

Phases == {"rotate", "format", "idle", "statement"}
Server == [file : Nat \ {0}, pos : Nat, phase : Phases, resume : {"idle", "statement"}, n : Nat,
           place : Nat \X Nat, artificial : BOOLEAN]

\* The first event is made up and names the file; from then on both programs
\* are in the server's file, and once a transaction began the count is its own.
LogInv ==
  /\ srv \in Server /\ table.columns \in Seq(Columns)
  /\ trx \in Nat /\ transaction_event_bytes \in Nat
  /\ srv.n = 0 => srv.phase = "rotate"
  /\ reader_filename = srv.file
  /\ trx # 0 => transaction_event_bytes = trx
  /\ PositionFollows /\ PlacesTrue /\ TransactionBytes

\* An event with a size, which is made up or begins where the server is.
Event(e) ==
  /\ e.size \in Nat \ {0} /\ e.end_position \in Nat
  /\ e.end_position # 0 => e.end_position - e.size - 4 = srv.pos /\ e.end_position - e.length = srv.pos

\* What the server sends is such an event.
LEMMA EventFacts ==
  ASSUME srv \in Server, NEW type, NEW body, Fields(body)
  PROVE  /\ Event(Logged(type, body)) /\ Logged(type, body).end_position # 0
         /\ Event(Artificial(type, body)) /\ Artificial(type, body).end_position = 0
<1> DEFINE b == Bytes(body)
           p == srv.pos
<1>1. b \in Nat /\ p \in Nat
  BY BytesType DEF Server
<1> HIDE DEF b, p
<1>2. Logged(type, body) = [type |-> type, body |-> body, size |-> 19 + b, length |-> 23 + b, end_position |-> p + 23 + b]
  BY Zenon DEF Logged, b, p
<1>3. Artificial(type, body) = [type |-> type, body |-> body, size |-> 19 + b, length |-> 19 + b, end_position |-> 0]
  BY Zenon DEF Artificial, b
<1> DEFINE e == Logged(type, body)
           a == Artificial(type, body)
<1>4. e.size = 19 + b /\ e.length = 23 + b /\ e.end_position = p + 23 + b
  BY <1>2
<1>5. a.size = 19 + b /\ a.end_position = 0
  BY <1>3
<1> HIDE DEF e, a
<1>6. /\ e.size \in Nat \ {0} /\ e.end_position \in Nat /\ e.end_position # 0
      /\ e.end_position - e.size - 4 = p /\ e.end_position - e.length = p
  BY <1>1, <1>4
<1>7. a.size \in Nat \ {0} /\ a.end_position \in Nat /\ a.end_position = 0
  BY <1>1, <1>5
<1>8. Event(e) /\ e.end_position # 0 /\ Event(a) /\ a.end_position = 0
  BY <1>6, <1>7, Zenon DEF Event, p
<1> QED
  BY <1>8, Zenon DEF e, a

\* What sending an event leaves.
LEMMA SendsFacts ==
  ASSUME srv \in Server, NEW e, Event(e), NEW phase \in Phases, Sends(e, phase)
  PROVE  /\ srv' \in Server /\ srv'.n # 0 /\ srv'.file = srv.file /\ srv'.place = <<srv.file, srv.pos>>
         /\ srv'.artificial <=> e.end_position = 0
         /\ e.end_position # 0 => srv'.pos = e.end_position /\ current_position' = srv.pos
         /\ ~failed
<1>1. srv.file \in Nat \ {0} /\ srv.pos \in Nat /\ srv.n \in Nat /\ srv.resume \in {"idle", "statement"}
  BY DEF Server
<1>2. e.end_position \in Nat /\ (e.end_position = 0) \in BOOLEAN
  BY Zenon DEF Event
<1> DEFINE q == IF e.end_position = 0 THEN srv.pos ELSE e.end_position
           z == e.end_position = 0
<1>3. srv' = [srv EXCEPT !.n = srv.n + 1, !.phase = phase, !.artificial = z,
                         !.place = <<srv.file, srv.pos>>, !.pos = q]
  BY Zenon DEF Sends
<1>4. q \in Nat /\ srv.n + 1 \in Nat \ {0} /\ <<srv.file, srv.pos>> \in Nat \X Nat /\ z \in BOOLEAN
  BY <1>1, <1>2
<1>5. e.end_position # 0 => q = e.end_position /\ current_position' = srv.pos
  BY Zenon DEF Sends, Accounted, Event
<1>6. ~failed /\ (z <=> e.end_position = 0)
  BY Zenon DEF Sends
<1> HIDE DEF q, z
<1>7. srv' = [file |-> srv.file, pos |-> q, phase |-> phase, resume |-> srv.resume, n |-> srv.n + 1,
              place |-> <<srv.file, srv.pos>>, artificial |-> z]
  BY <1>3, Zenon DEF Server
<1>8. srv' \in Server
  BY <1>1, <1>4, <1>7 DEF Server
<1>9. srv'.n = srv.n + 1 /\ srv'.file = srv.file /\ srv'.place = <<srv.file, srv.pos>> /\ srv'.pos = q
  BY <1>7
<1>10. srv'.artificial = z
  BY <1>7
<1> QED
  BY <1>4, <1>5, <1>6, <1>8, <1>9, <1>10, Zenon

\* An event that both programs handle in place keeps the invariant: whatever
\* they print is where it begins, and its size goes to the transaction it is in.
LEMMA EventKeeps ==
  ASSUME LogInv, NEW e, Event(e), NEW phase \in Phases, Sends(e, phase), srv.phase # "rotate",
         table'.columns \in Seq(Columns),
         printed' = <<0, 0>> \/ printed' = Printed(e), reader_filename' = reader_filename,
         failed' = TRUE \/ (position' = e.end_position /\ filename' = filename),
         Counted(e) \/ BEGIN(e) \/ COMMIT(e)
  PROVE  LogInv'
<1>1. /\ srv' \in Server /\ srv'.n # 0 /\ srv'.file = srv.file /\ srv'.place = <<srv.file, srv.pos>>
      /\ srv'.artificial <=> e.end_position = 0
      /\ e.end_position # 0 => srv'.pos = e.end_position /\ current_position' = srv.pos
      /\ ~failed
  BY SendsFacts, Zenon DEF LogInv
<1>2. srv.n \in Nat /\ srv.n # 0 /\ srv.pos \in Nat /\ srv.file \in Nat /\ reader_filename = srv.file
  BY DEF LogInv, Server
<1>3. PositionFollows'
  <2>1. filename = srv.file
    <3>1. srv.n > 0
      BY <1>2
    <3> QED
      BY <1>1, <3>1, Zenon DEF LogInv, PositionFollows
  <2>2. CASE failed' = TRUE
    BY <2>2, Zenon DEF PositionFollows
  <2>3. CASE position' = e.end_position /\ filename' = filename
    <3>1. filename' = srv'.file
      BY <1>1, <2>1, <2>3, Zenon
    <3>2. position' = srv'.pos \/ (position' = 0 /\ srv'.artificial)
      BY <1>1, <2>3, Zenon
    <3> QED
      BY <3>1, <3>2, Zenon DEF PositionFollows
  <2> QED
    BY <2>2, <2>3, Zenon
<1>4. PlacesTrue'
  <2> SUFFICES ASSUME ~srv'.artificial
               PROVE  current_position' = srv'.place[2] /\ (printed'[1] # 0 => printed' = srv'.place)
    BY Zenon DEF PlacesTrue
  <2>1. e.end_position # 0
    BY <1>1, Zenon
  <2>2. current_position' = srv'.place[2]
    BY <1>1, <2>1
  <2>3. Printed(e) = <<srv.file, srv.pos>>
    BY <1>2, <2>1, Zenon DEF Printed, Event
  <2>4. CASE printed' = <<0, 0>>
    BY <2>2, <2>4
  <2>5. CASE printed' = Printed(e)
    BY <1>1, <2>2, <2>3, <2>5, Zenon
  <2> QED
    BY <2>4, <2>5, Zenon
<1>5. trx' \in Nat /\ transaction_event_bytes' \in Nat /\ (trx' # 0 => transaction_event_bytes' = trx') /\ TransactionBytes'
  <2>1. e.size \in Nat \ {0} /\ trx \in Nat /\ transaction_event_bytes \in Nat
    BY Zenon DEF Event, LogInv
  <2>2. trx # 0 => transaction_event_bytes = trx
    BY Zenon DEF LogInv
  <2>3. CASE Counted(e)
    <3>1. transaction_event_bytes' = transaction_event_bytes + e.size /\ trx' = IF trx = 0 THEN 0 ELSE trx + e.size
      BY <2>3, Zenon DEF Counted, counted
    <3>2. TransactionBytes'
      BY <2>3, Zenon DEF Counted, LogInv, TransactionBytes
    <3> QED
      BY <2>1, <2>2, <3>1, <3>2
  <2>4. CASE BEGIN(e)
    <3>1. TransactionBytes'
      BY <2>4, Zenon DEF BEGIN, LogInv, TransactionBytes
    <3> QED
      BY <2>1, <2>4, <3>1, Zenon DEF BEGIN
  <2>5. CASE COMMIT(e)
    <3>1. transaction_event_bytes' = 0 /\ trx' = 0
      BY <2>5, Zenon DEF COMMIT
    <3>2. CASE trx = 0
      <4>1. reported' = reported
        BY <2>5, <3>2, Zenon DEF COMMIT
      <4> QED
        BY <3>1, <4>1 DEF LogInv, TransactionBytes
    <3>3. CASE trx # 0
      <4>1. reported' = <<transaction_event_bytes + e.size, trx + e.size>>
        BY <2>5, <3>3, Zenon DEF COMMIT, counted
      <4> QED
        BY <2>2, <3>1, <3>3, <4>1 DEF TransactionBytes
    <3> QED
      BY <3>2, <3>3, Zenon
  <2> QED
    BY <2>3, <2>4, <2>5, Zenon
<1>6. reader_filename' = srv'.file
  BY <1>1, <1>2, Zenon
<1> QED
  BY <1>1, <1>3, <1>4, <1>5, <1>6, Zenon DEF LogInv

\* The made-up event that names the file.
LEMMA RotatedKeeps ==
  ASSUME LogInv, Rotated
  PROVE  LogInv'
<1> DEFINE e == Artificial("ROTATE", <<F(srv.pos, 8), F(srv.file, 16)>>)
<1>1. Fields(<<F(srv.pos, 8), F(srv.file, 16)>>)
  BY FieldsFew
<1>2. Event(e) /\ e.end_position = 0
  BY <1>1, EventFacts, Zenon DEF LogInv
<1>3. /\ Sends(e, "format") /\ Counted(e) /\ parse_rotate_event(srv.file, srv.pos, e) /\ NextFile(srv.file, e)
      /\ table' = table /\ failed' = failed
  BY Zenon DEF Rotated
<1> HIDE DEF e
<1>4. "format" \in Phases
  BY Zenon DEF Phases
<1>5. srv' \in Server /\ srv'.n # 0 /\ srv'.file = srv.file /\ srv'.artificial
  BY <1>2, <1>3, <1>4, SendsFacts, Zenon DEF LogInv
<1>6. srv'.pos = srv.pos
  BY <1>2, <1>3 DEF Sends, LogInv, Server
<1>7. PositionFollows' /\ PlacesTrue' /\ reader_filename' = srv'.file
  BY <1>3, <1>5, <1>6, Zenon DEF parse_rotate_event, NextFile, PositionFollows, PlacesTrue
<1>8. e.size \in Nat /\ trx \in Nat /\ transaction_event_bytes \in Nat /\ (trx # 0 => transaction_event_bytes = trx)
  BY <1>2, Zenon DEF Event, LogInv
<1>9. transaction_event_bytes' = transaction_event_bytes + e.size /\ trx' = IF trx = 0 THEN 0 ELSE trx + e.size
  BY <1>3, Zenon DEF Counted, counted
<1>10. trx' \in Nat /\ transaction_event_bytes' \in Nat /\ (trx' # 0 => transaction_event_bytes' = trx')
  BY <1>8, <1>9
<1>11. TransactionBytes'
  BY <1>3, Zenon DEF Counted, LogInv, TransactionBytes
<1> QED
  BY <1>3, <1>5, <1>7, <1>10, <1>11, Zenon DEF LogInv

\* The last event of a file: both programs go to the next with the server.
LEMMA RotateKeeps ==
  ASSUME LogInv, Rotate
  PROVE  LogInv'
<1> DEFINE e == Logged("ROTATE", <<F(4, 8), F(srv.file + 1, 16)>>)
<1>1. Fields(<<F(4, 8), F(srv.file + 1, 16)>>)
  BY FieldsFew
<1>2. Event(e) /\ e.end_position # 0
  BY <1>1, EventFacts, Zenon DEF LogInv
<1>3. /\ srv' = [srv EXCEPT !.n = srv.n + 1, !.phase = "rotate", !.resume = "idle", !.artificial = FALSE,
                            !.place = <<srv.file, srv.pos>>, !.file = srv.file + 1, !.pos = 4]
      /\ Accounted(e) /\ Counted(e) /\ parse_rotate_event(srv.file + 1, 4, e) /\ NextFile(srv.file + 1, e)
      /\ table' = table /\ failed' = failed
  BY Zenon DEF Rotate
<1> HIDE DEF e
<1>4. srv \in Server /\ srv.file \in Nat \ {0} /\ srv.pos \in Nat /\ srv.n \in Nat /\ reader_filename = srv.file
  BY DEF LogInv, Server
<1>5. srv' = [file |-> srv.file + 1, pos |-> 4, phase |-> "rotate", resume |-> "idle", n |-> srv.n + 1,
              place |-> <<srv.file, srv.pos>>, artificial |-> FALSE]
  BY <1>3, <1>4, Zenon DEF Server
<1>6. srv' \in Server
  BY <1>4, <1>5 DEF Server, Phases
<1>7. srv'.file = srv.file + 1 /\ srv'.pos = 4 /\ srv'.n = srv.n + 1 /\ srv'.place = <<srv.file, srv.pos>>
  BY <1>5
<1>8. PositionFollows' /\ reader_filename' = srv'.file
  BY <1>3, <1>7, Zenon DEF parse_rotate_event, NextFile, PositionFollows
<1>9. PlacesTrue'
  <2>1. current_position' = srv.pos
    BY <1>2, <1>3, Zenon DEF Accounted, Event
  <2>2. printed' = <<srv.file, srv.pos>>
    BY <1>2, <1>3, <1>4, Zenon DEF NextFile, Printed, Event
  <2>3. srv'.place[2] = srv.pos
    BY <1>7
  <2> QED
    BY <1>7, <2>1, <2>2, <2>3, Zenon DEF PlacesTrue
<1>10. e.size \in Nat /\ trx \in Nat /\ transaction_event_bytes \in Nat /\ (trx # 0 => transaction_event_bytes = trx)
  BY <1>2, Zenon DEF Event, LogInv
<1>11. transaction_event_bytes' = transaction_event_bytes + e.size /\ trx' = IF trx = 0 THEN 0 ELSE trx + e.size
  BY <1>3, Zenon DEF Counted, counted
<1>12. trx' \in Nat /\ transaction_event_bytes' \in Nat /\ (trx' # 0 => transaction_event_bytes' = trx')
  BY <1>10, <1>11
<1>13. TransactionBytes'
  BY <1>3, Zenon DEF Counted, LogInv, TransactionBytes
<1>14. srv'.n # 0
  BY <1>4, <1>7
<1> QED
  BY <1>3, <1>6, <1>8, <1>9, <1>12, <1>13, <1>14, Zenon DEF LogInv

\* Every step of the server and of the programs keeps the invariant.
LEMMA LogStep ==
  ASSUME LogInv, Next
  PROVE  LogInv'
<1>0. /\ {"format", "idle", "statement"} \subseteq Phases
      /\ srv \in Server /\ table.columns \in Seq(Columns)
      /\ srv.resume \in Phases
  BY DEF LogInv, Server, Phases
<1>1. CASE Rotated
  BY <1>1, RotatedKeeps, Zenon
<1>2. CASE Rotate
  BY <1>2, RotateKeeps, Zenon
<1>3. CASE parse_xid_event
  <2> DEFINE e == Logged("XID", <<F(0, 8)>>)
  <2>1. Fields(<<F(0, 8)>>)
    BY FieldsFew
  <2>2. Event(e)
    BY <1>0, <2>1, EventFacts, Zenon
  <2>3. /\ srv.phase = "statement" /\ Sends(e, "idle") /\ COMMIT(e) /\ Parsed(e) /\ Silent
        /\ table' = table
    BY <1>3, Zenon DEF parse_xid_event
  <2> HIDE DEF e
  <2>4. srv.phase # "rotate"
    BY <2>3
  <2> QED
    BY <1>0, <2>2, <2>3, <2>4, EventKeeps, Zenon DEF Parsed, Silent
<1>4. CASE SendFails
  BY <1>4, Zenon DEF SendFails, LogInv, server, proc, stats, reader, PositionFollows, PlacesTrue, TransactionBytes
<1>5. ASSUME NEW version \in {3, 4}, parse_format_description_event(version) PROVE LogInv'
  <2> DEFINE body == <<F(version, 2), F(0, 96)>>
             e == IF srv.pos = 4 THEN Logged("FORMAT_DESCRIPTION", body) ELSE Artificial("FORMAT_DESCRIPTION", body)
  <2>1. Fields(body)
    BY FieldsFew, ZenonT(60)
  <2>2. Event(e)
    <3> HIDE DEF body
    <3> QED
      BY <1>0, <2>1, EventFacts, Zenon
  <2>3. /\ srv.phase = "format" /\ Sends(e, srv.resume) /\ Counted(e)
        /\ (Parsed(e) /\ UNCHANGED failed) \/ Unparsed(e)
        /\ Silent /\ table' = table
    BY <1>5 DEF parse_format_description_event
  <2> HIDE DEF e
  <2>4. srv.phase # "rotate"
    BY <2>3
  <2> QED
    BY <1>0, <2>2, <2>3, <2>4, EventKeeps, Zenon DEF Parsed, Unparsed, Silent
<1>6. ASSUME NEW query \in {"BEGIN", "COMMIT", "OTHER"}, parse_query_event(query) PROVE LogInv'
  <2> DEFINE e == Logged("QUERY", <<F(0, 14), F(query, IF query = "BEGIN" THEN 5 ELSE 6)>>)
             phase == IF query = "BEGIN" THEN "statement" ELSE "idle"
  <2>1. Fields(<<F(0, 14), F(query, IF query = "BEGIN" THEN 5 ELSE 6)>>)
    BY FieldsFew
  <2>2. Event(e)
    BY <1>0, <2>1, EventFacts, Zenon
  <2>3. /\ srv.phase = IF query = "COMMIT" THEN "statement" ELSE "idle"
        /\ Sends(e, phase) /\ (Shown(e) \/ Silent) /\ Parsed(e) /\ table' = table
    BY <1>6, Zenon DEF parse_query_event
  <2>4. Counted(e) \/ BEGIN(e) \/ COMMIT(e)
    <3> DEFINE a == BEGIN(e)
               b == COMMIT(e)
               c == Counted(e)
    <3>1. (CASE query = "BEGIN" -> a [] query = "COMMIT" -> b [] OTHER -> c)
      BY <1>6, Zenon DEF parse_query_event
    <3> HIDE DEF a, b, c
    <3>2. a \/ b \/ c
      BY <3>1
    <3> QED
      BY <3>2, Zenon DEF a, b, c
  <2> HIDE DEF e
  <2>5. srv.phase # "rotate" /\ phase \in Phases
    BY <1>0, <2>3
  <2> QED
    BY <1>0, <2>2, <2>3, <2>4, <2>5, EventKeeps, Zenon DEF Parsed, Shown, Silent
<1>7. ASSUME NEW type, parse_unknown_event(type) PROVE LogInv'
  <2> DEFINE e == Logged(type, <<>>)
  <2>1. Fields(<<>>)
    BY FieldsFew
  <2>2. Event(e)
    BY <1>0, <2>1, EventFacts, Zenon
  <2>3. /\ srv.phase = "idle" /\ Sends(e, "idle") /\ Counted(e) /\ (Silent \/ Shown(e)) /\ Parsed(e)
        /\ table' = table
    BY <1>7, Zenon DEF parse_unknown_event
  <2> HIDE DEF e
  <2>4. srv.phase # "rotate"
    BY <2>3
  <2> QED
    BY <1>0, <2>2, <2>3, <2>4, EventKeeps, Zenon DEF Parsed, Shown, Silent
<1>8. ASSUME NEW id, NEW cols \in Tables, parse_table_map_event(id, cols) PROVE LogInv'
  <2> DEFINE e == Logged("TABLE_MAP", TableMapBody(id, cols))
  <2>1. cols \in Seq(Columns)
    BY TablesColumns, Zenon
  <2>2. Event(e)
    BY <1>0, <2>1, TableMapFields, EventFacts, Zenon
  <2>3. /\ srv.phase = "statement" /\ Sends(e, "statement") /\ Counted(e)
        /\ table' = [id |-> id, columns |-> cols, sent |-> TRUE]
        /\ (position' = e.end_position /\ filename' = filename) \/ Unparsed(e)
        /\ Silent
    BY <1>8, Zenon DEF parse_table_map_event
  <2> HIDE DEF e
  <2>4. srv.phase # "rotate" /\ table'.columns = cols
    BY <2>3
  <2> QED
    BY <1>0, <2>1, <2>2, <2>3, <2>4, EventKeeps, Zenon DEF Unparsed, Silent
<1>9. ASSUME NEW id, NEW write_type, NEW version, NEW gone \in LeftOut(write_type, version),
             NEW data \in RowData(write_type, version), parse_rows_event(id, write_type, version, gone, data)
      PROVE  LogInv'
  <2> DEFINE e == Logged("ROWS", RowsBody(id, version, gone, table.columns, data))
  <2>1. Len(data) \in Nat /\ \A i \in 1..Len(data) : Fits(table.columns, data[i])
    BY <1>0, RowDataFit, ImagesFit, Zenon
  <2>2. /\ Len(gone) \in Nat
        /\ Len(table.columns) > 1 \/ \A i \in 1..Len(data) : ~gone[1 + ((i - 1) % Len(gone))]
    <3>1. PICK k \in {1, 2} : gone \in [1..k -> IF Len(table.columns) > 1 THEN BOOLEAN ELSE {FALSE}]
      BY Zenon DEF LeftOut
    <3>2. Len(gone) = k
      BY <3>1
    <3>3. \A i \in 1..Len(data) : 1 + ((i - 1) % k) \in 1..k
      BY <2>1, <3>1
    <3>4. CASE ~(Len(table.columns) > 1)
      <4>1. gone \in [1..k -> {FALSE}]
        BY <3>1, <3>4, Zenon
      <4>2. \A j \in 1..k : ~gone[j]
        BY <4>1, Zenon
      <4> QED
        BY <3>2, <3>3, <4>2, SMT
    <3> QED
      BY <3>2, <3>4, SMT
  <2>3. Event(e)
    BY <1>0, <2>1, <2>2, RowsFields, EventFacts, Zenon
  <2>4. /\ srv.phase = "statement" /\ Sends(e, "statement") /\ Counted(e)
        /\ (Parsed(e) /\ Shown(e)) \/ (Unparsed(e) /\ Silent)
        /\ table' = table
    BY <1>9, Zenon DEF parse_rows_event
  <2> HIDE DEF e
  <2>5. srv.phase # "rotate"
    BY <2>4
  <2> QED
    BY <1>0, <2>3, <2>4, <2>5, EventKeeps, Zenon DEF Parsed, Unparsed, Shown, Silent
<1> QED
  BY <1>1, <1>2, <1>3, <1>4, <1>5, <1>6, <1>7, <1>8, <1>9, Zenon DEF Next

\* The programs start where the server does.
LEMMA LogStart ==
  ASSUME Init
  PROVE  LogInv
<1>1. PICK start \in Starts, phase \in {"idle", "statement"} :
           srv = [file |-> 1, pos |-> start, phase |-> "rotate", resume |-> phase, n |-> 0,
                  place |-> <<0, 0>>, artificial |-> TRUE]
  BY Zenon DEF Init
<1>2. start \in Nat
  BY BinlogAssumption, Zenon
<1>3. srv \in Server /\ srv.n = 0 /\ srv.phase = "rotate" /\ srv.file = 1
  BY <1>1, <1>2 DEF Server, Phases
<1>4. table.columns \in Seq(Columns)
  <2>1. table \in [id : Ids, columns : {<<Whole("INT", 4)>>}, sent : {FALSE}]
    BY Zenon DEF Init
  <2>2. table.columns = <<Whole("INT", 4)>>
    BY <2>1
  <2>3. Whole("INT", 4) \in Columns
    BY ZenonT(60) DEF Columns
  <2>4. \A c \in Columns : <<c>> \in Seq(Columns)
    OBVIOUS
  <2> QED
    BY <2>2, <2>3, <2>4, Zenon
<1>5. trx \in Nat /\ transaction_event_bytes \in Nat /\ trx = 0 /\ reader_filename = 1 /\ reported = <<0, 0>>
  BY DEF Init
<1>6. PositionFollows /\ PlacesTrue
  BY <1>3 DEF PositionFollows, PlacesTrue
<1>7. TransactionBytes
  BY <1>5 DEF TransactionBytes
<1> QED
  BY <1>3, <1>4, <1>5, <1>6, <1>7, Zenon DEF LogInv

\* The invariant holds throughout.
LEMMA LogAlways == Spec => []LogInv
<1>1. Init => LogInv
  BY LogStart, Zenon
<1>2. LogInv /\ [Next]_vars => LogInv'
  <2> SUFFICES ASSUME LogInv, [Next]_vars PROVE LogInv'
    OBVIOUS
  <2>1. CASE Next
    BY <2>1, LogStep, Zenon
  <2>2. CASE UNCHANGED vars
    BY <2>2, Zenon DEF vars, server, proc, stats, reader, LogInv, PositionFollows, PlacesTrue, TransactionBytes
  <2> QED
    BY <2>1, <2>2, Zenon
<1> QED
  BY <1>1, <1>2, PTL DEF Spec

\* BinlogProcessor is always where the server's next event begins, in the
\* server's file, for every start, every set of tables and every event, so
\* that a program that reconnects there misses and repeats nothing.
THEOREM ProcessorFollows == Spec => []PositionFollows
<1>1. LogInv => PositionFollows
  BY Zenon DEF LogInv
<1> QED
  BY <1>1, LogAlways, PTL

\* What MySQLBinlogStats reports and MySQLBinlogReader prints as the place of
\* an event is where it begins, in the file it is in, across every rotation.
THEOREM PlacesAreTrue == Spec => []PlacesTrue
<1>1. LogInv => PlacesTrue
  BY Zenon DEF LogInv
<1> QED
  BY <1>1, LogAlways, PTL

\* The size MySQLBinlogStats reports for a transaction is that of its events
\* from BEGIN to COMMIT or XID, whatever tables and rows they hold.
THEOREM TransactionSizes == Spec => []TransactionBytes
<1>1. LogInv => TransactionBytes
  BY Zenon DEF LogInv
<1> QED
  BY <1>1, LogAlways, PTL
=============================================================================
